---- MODULE Spec2Model ----
(***************************************************************************)
(* Model of the building-chat orchestration (functions/building_chat) and  *)
(* of the document ingestion chain file_processor -> embed_and_index ->    *)
(* process_and_embeds of the rag-pipeline-aws repository.                  *)
(*                                                                         *)
(* Python dicts are TLA+ records whose DOMAIN is the set of keys present,  *)
(* so a subscript d['k'] raises exactly when "k" \notin DOMAIN d.          *)
(* Confidences are in hundredths (70 is 0.7); costs are in units of 1e-8   *)
(* USD and the rates of the pricing table in those units per 1M tokens.    *)
(***************************************************************************)
EXTENDS Integers, Sequences, FiniteSets, TLC

\* ------------------------------------------------------------------------
\* Bounds of the model
\* ------------------------------------------------------------------------
MaxRequests == 1
MaxIngests == 2

\* ------------------------------------------------------------------------
\* Program constants
\* ------------------------------------------------------------------------
CHAT_COLLECTION_NAME == "dev-buildingassets"
INGEST_COLLECTION_NAME == "BuildingAssets"
FILE_TOP_K == 5
ALL_DOCS_TOP_K == 8
BATCH_SIZE == 32
WINDOW_SIZE == 512
OVERLAP == 50
SESSION_COST_THRESHOLD == 100000000
DAILY_COST_THRESHOLD == 1000000000

PRICING ==
  [m \in {"gpt-4o-mini", "text-embedding-3-small"} |->
     IF m = "gpt-4o-mini" THEN [input |-> 40000, output |-> 160000]
                          ELSE [input |-> 2000]]

ContextTypes ==
  {"file_context", "building_context", "organization_context",
   "vector_context", "general"}

\* ------------------------------------------------------------------------
\* Small helpers
\* ------------------------------------------------------------------------
Min(a, b) == IF a <= b THEN a ELSE b

\* s[-n:]
LastN(s, n) == IF Len(s) <= n THEN s ELSE SubSeq(s, Len(s) - n + 1, Len(s))

RECURSIVE SetToSeq(_)
SetToSeq(S) ==
  IF S = {} THEN <<>>
  ELSE LET x == CHOOSE y \in S : TRUE IN <<x>> \o SetToSeq(S \ {x})

\* ------------------------------------------------------------------------
\* Environment: relational store rows, users, request inputs
\* ------------------------------------------------------------------------
Orgs == {1, 2}
Buildings == {1, 2}

BuildingsTable ==
  {[id |-> 1, org_id |-> 1, manager_emails |-> {"mgr@1"}],
   [id |-> 2, org_id |-> 2, manager_emails |-> {"mgr@2"}]}

OrganizationsTable ==
  {[id |-> 1, admin_email |-> "admin@1"],
   [id |-> 2, admin_email |-> "admin@2"]}

Users == {"admin@1", "mgr@2"}

\* A message is the set of words it contains; Lower is str.lower on a word.
Lower(w) ==
  CASE w = "FILE" -> "file"
    [] w = "Building" -> "building"
    [] OTHER -> w

MessageLower(message) == {Lower(w) : w \in message}

Messages ==
  {{"hello"}, {"FILE", "Building"}, {"energy"}, {"portfolio", "past"}, {"past"}}

\* A history turn is a dict with role and content, or a malformed entry.
\* The content of a turn is modelled by its length in characters.
GoodTurn == [role |-> "user", content |-> 250]
BadTurn == [pytype |-> "str"]
Histories == {<<GoodTurn>>, <<BadTurn>>}

FileIdLists == {<<>>, <<1>>}

\* A URL is modelled by its scheme and by what follows "scheme://" split at
\* the first "/" (url[5:].split('/', 1) for an s3 URL).
NoUrl == [pytype |-> "NoneType"]
Url(scheme, parts) == [scheme |-> scheme, parts |-> parts]
FileUrls ==
  {NoUrl, Url("s3", <<"bucket", "a.pdf">>), Url("https", <<"host", "a.pdf">>)}

\* Object storage: the pages of each stored document, as words per page
\* (a page of 0 words has no text block)
S3Documents ==
  [key \in {"a.pdf", "scan.pdf", "big.pdf"} |->
     CASE key = "a.pdf" -> <<600, 0, 10>>
       [] key = "scan.pdf" -> <<0>>
       [] key = "big.pdf" -> [i \in 1..(BATCH_SIZE + 1) |-> 1]]

\* Points already in the collection the chat reads
ExistingPoint(id, org_id, building_id, file_id) ==
  [id |-> id,
   payload |-> [org_id |-> org_id, building_id |-> building_id,
                file_id |-> file_id, text |-> <<"text of", id>>,
                chunk_index |-> 0]]

\* The tracking rows of the documents those points come from
ExistingFile(id, org_id, building_id) ==
  [id |-> id, file_name |-> <<"old", id>>, file_path |-> <<"old", id>>,
   building_id |-> building_id, org_id |-> org_id,
   file_status |-> "processed", source |-> "upload"]

ExistingFiles ==
  <<ExistingFile(1, 1, 1), ExistingFile(2, 1, 2), ExistingFile(3, 2, 2)>>

ExistingPoints ==
  {ExistingPoint("p1", 1, 1, 1), ExistingPoint("p2", 1, 2, 2),
   ExistingPoint("p3", 2, 2, 3)}

\* ------------------------------------------------------------------------
\* Python values: a dict is a record; any other value carries its pytype
\* ------------------------------------------------------------------------
IsDict(v) == "pytype" \notin DOMAIN v

\* v[k] does not raise
HasKey(v, k) == IsDict(v) /\ k \in DOMAIN v

\* v.get(k, default) on a dict v
Get(v, k, default) == IF k \in DOMAIN v THEN v[k] ELSE default

\* ------------------------------------------------------------------------
\* Usage ledger (cost_tracker.py)
\* ------------------------------------------------------------------------
ChatUsage ==
  [prompt_tokens |-> 1000, completion_tokens |-> 200, total_tokens |-> 1200]
EmbeddingUsage == [prompt_tokens |-> 500, total_tokens |-> 500]

NewTracker == [total_cost |-> 0, api_calls |-> <<>>]

calculate_cost(model, usage) ==
  IF model \notin DOMAIN PRICING THEN 0
  ELSE LET pricing == PRICING[model]
           input_cost ==
             IF "prompt_tokens" \in DOMAIN usage /\ "input" \in DOMAIN pricing
             THEN (usage.prompt_tokens * pricing.input) \div 1000000 ELSE 0
           output_cost ==
             IF "completion_tokens" \in DOMAIN usage /\ "output" \in DOMAIN pricing
             THEN (usage.completion_tokens * pricing.output) \div 1000000 ELSE 0
       IN input_cost + output_cost

\* A ledger that records the call without adding its cost to the total
log_api_call_NoTotal(tracker, api_type, model, usage) ==
  LET cost == calculate_cost(model, usage)
      call_record == [api_type |-> api_type, model |-> model,
                      usage |-> usage, cost_usd |-> cost]
  IN [total_cost |-> tracker.total_cost,
      api_calls |-> Append(tracker.api_calls, call_record)]

log_api_call(tracker, api_type, model, usage) ==
  LET cost == calculate_cost(model, usage)
      call_record == [api_type |-> api_type, model |-> model,
                      usage |-> usage, cost_usd |-> cost]
  IN [total_cost |-> tracker.total_cost + cost,
      api_calls |-> Append(tracker.api_calls, call_record)]

RECURSIVE SumCost(_)
SumCost(calls) ==
  IF calls = <<>> THEN 0 ELSE Head(calls).cost_usd + SumCost(Tail(calls))

RECURSIVE SumTokens(_)
SumTokens(calls) ==
  IF calls = <<>> THEN 0
  ELSE Get(Head(calls).usage, "total_tokens", 0) + SumTokens(Tail(calls))

CallsOfType(calls, t) == SelectSeq(calls, LAMBDA c : c.api_type = t)

get_session_summary(tracker) ==
  LET types == {tracker.api_calls[i].api_type : i \in DOMAIN tracker.api_calls}
  IN [total_api_calls |-> Len(tracker.api_calls),
      total_cost_usd |-> tracker.total_cost,
      calls_by_type |->
        [t \in types |->
           [count |-> Len(CallsOfType(tracker.api_calls, t)),
            total_cost |-> SumCost(CallsOfType(tracker.api_calls, t)),
            total_tokens |-> SumTokens(CallsOfType(tracker.api_calls, t))]]]

\* A reset that keeps the records of the earlier request
reset_session_Keeps(tracker) == tracker

reset_session(tracker) == NewTracker

\* ------------------------------------------------------------------------
\* Usage monitor (cost_monitor.py); the clock stays within one day
\* ------------------------------------------------------------------------
Today == "2025-01-15"
ThisMonth == "2025-01"

EmptyDict == [k \in {} |-> 0]
NewBucket == [total_cost |-> 0, request_count |-> 0, api_calls |-> 0]
NewMonitor ==
  [daily_costs |-> EmptyDict, monthly_costs |-> EmptyDict, cost_alerts |-> <<>>]

AddToBucket(buckets, key, session_summary) ==
  LET old == IF key \in DOMAIN buckets THEN buckets[key] ELSE NewBucket
      new == [total_cost |-> old.total_cost + session_summary.total_cost_usd,
              request_count |-> old.request_count + 1,
              api_calls |-> old.api_calls + session_summary.total_api_calls]
  IN [k \in DOMAIN buckets \cup {key} |-> IF k = key THEN new ELSE buckets[k]]

\* Alerts that are raised already when a threshold is reached
check_cost_alerts_AtThreshold(daily_costs, cost_alerts, session_cost) ==
  LET a1 == IF session_cost >= SESSION_COST_THRESHOLD
            THEN Append(cost_alerts, [type |-> "high_session_cost",
                                      cost |-> session_cost])
            ELSE cost_alerts
  IN IF Today \in DOMAIN daily_costs
        /\ daily_costs[Today].total_cost >= DAILY_COST_THRESHOLD
     THEN Append(a1, [type |-> "high_daily_cost",
                      cost |-> daily_costs[Today].total_cost])
     ELSE a1

check_cost_alerts(daily_costs, cost_alerts, session_cost) ==
  LET a1 == IF session_cost > SESSION_COST_THRESHOLD
            THEN Append(cost_alerts, [type |-> "high_session_cost",
                                      cost |-> session_cost])
            ELSE cost_alerts
  IN IF Today \in DOMAIN daily_costs
        /\ daily_costs[Today].total_cost > DAILY_COST_THRESHOLD
     THEN Append(a1, [type |-> "high_daily_cost",
                      cost |-> daily_costs[Today].total_cost])
     ELSE a1

add_session_costs(monitor, session_summary) ==
  LET daily == AddToBucket(monitor.daily_costs, Today, session_summary)
      monthly == AddToBucket(monitor.monthly_costs, ThisMonth, session_summary)
  IN [daily_costs |-> daily,
      monthly_costs |-> monthly,
      cost_alerts |-> check_cost_alerts(daily, monitor.cost_alerts,
                                        session_summary.total_cost_usd)]

\* ------------------------------------------------------------------------
\* Intent classifier (context_classifier.py)
\* ------------------------------------------------------------------------
FileKeywords == {"file", "document", "upload", "this", "summarize"}
BuildingKeywords == {"building", "energy", "bills", "measures"}
OrganizationKeywords == {"organization", "company", "all buildings", "portfolio"}
VectorKeywords ==
  {"previous", "historical", "past", "reports", "find", "search", "analysis"}

ClassificationDict(ct, conf, reason, rfp, actions) ==
  [context_type |-> ct, confidence |-> conf, reason |-> reason,
   requires_file_processing |-> rfp, suggested_actions |-> actions]

\* A fallback that tests the building keywords before the file keywords
fallback_classification_BuildingFirst(message) ==
  LET message_lower == MessageLower(message)
  IN IF message_lower \cap BuildingKeywords # {}
     THEN ClassificationDict("building_context", 70,
            "Fallback: detected building-related keywords", FALSE,
            <<"fetch_building_data">>)
     ELSE IF message_lower \cap FileKeywords # {}
     THEN ClassificationDict("file_context", 70,
            "Fallback: detected file-related keywords", TRUE,
            <<"process_file", "extract_content">>)
     ELSE IF message_lower \cap OrganizationKeywords # {}
     THEN ClassificationDict("organization_context", 70,
            "Fallback: detected organization-related keywords", FALSE,
            <<"fetch_org_data">>)
     ELSE IF message_lower \cap VectorKeywords # {}
     THEN ClassificationDict("vector_context", 70,
            "Fallback: detected vector search keywords", FALSE,
            <<"search_vector_store">>)
     ELSE ClassificationDict("general", 60,
            "Fallback: no specific context detected", FALSE,
            <<"general_response">>)

fallback_classification(message) ==
  LET message_lower == MessageLower(message)
  IN IF message_lower \cap FileKeywords # {}
     THEN ClassificationDict("file_context", 70,
            "Fallback: detected file-related keywords", TRUE,
            <<"process_file", "extract_content">>)
     ELSE IF message_lower \cap BuildingKeywords # {}
     THEN ClassificationDict("building_context", 70,
            "Fallback: detected building-related keywords", FALSE,
            <<"fetch_building_data">>)
     ELSE IF message_lower \cap OrganizationKeywords # {}
     THEN ClassificationDict("organization_context", 70,
            "Fallback: detected organization-related keywords", FALSE,
            <<"fetch_org_data">>)
     ELSE IF message_lower \cap VectorKeywords # {}
     THEN ClassificationDict("vector_context", 70,
            "Fallback: detected vector search keywords", FALSE,
            <<"search_vector_store">>)
     ELSE ClassificationDict("general", 60,
            "Fallback: no specific context detected", FALSE,
            <<"general_response">>)

\* What json.loads can return for the content of the completion model's reply
ModelJsonValues ==
  {ClassificationDict("file_context", 95, "asks about the file", TRUE, <<"process_file">>),
   ClassificationDict("general", 90, "greeting", FALSE, <<>>),
   ClassificationDict("weather_context", 90, "asks about weather", FALSE, <<>>),
   ClassificationDict("general", 150, "very sure", FALSE, <<>>),
   [context_type |-> "vector_context", requires_file_processing |-> FALSE],
   [confidence |-> 95, reason |-> "no type given"],
   [pytype |-> "list"]}

\* Replies of the completion API to the classification request:
\*   transport_error  requests.post or get_openai_api_key raises (timeout ...)
\*   http_error       response.ok is false
\*   bad_shape        a 2xx body without choices[0].message.content
\*   not_json         the content is not JSON
\*   json             the content parses to value
ClassifierReplies ==
  {[kind |-> k] : k \in {"transport_error", "http_error", "bad_shape", "not_json"}}
  \cup {[kind |-> "json", value |-> v] : v \in ModelJsonValues}

\* A classifier whose fallback asks for file processing when the request
\* carries file ids
classify_UsesFileIds(message, message_history, file_ids, building_id, reply) ==
  IF reply.kind = "json"
  THEN [value |-> reply.value, logged |-> TRUE]
  ELSE [value |-> [fallback_classification(message) EXCEPT
                     !.requires_file_processing = (file_ids # <<>>)],
        logged |-> reply.kind = "not_json"]

\* classify never raises: every path returns; logged tells whether the call
\* was recorded in the ledger before the return
classify(message, message_history, file_ids, building_id, reply) ==
  CASE reply.kind = "transport_error" ->
         [value |-> fallback_classification(message), logged |-> FALSE]
    [] reply.kind = "http_error" ->
         [value |-> fallback_classification(message), logged |-> FALSE]
    [] reply.kind = "bad_shape" ->
         [value |-> fallback_classification(message), logged |-> FALSE]
    [] reply.kind = "not_json" ->
         [value |-> fallback_classification(message), logged |-> TRUE]
    [] reply.kind = "json" ->
         [value |-> reply.value, logged |-> TRUE]

\* ------------------------------------------------------------------------
\* Vector index service: filtered top-k query
\* ------------------------------------------------------------------------
FieldCondition(key, value) == [key |-> key, match |-> value]

MatchesField(payload, c) == c.key \in DOMAIN payload /\ payload[c.key] = c.match

\* Filter(must=[...]) where an element is a field condition or a nested
\* Filter(should=[...]): every must element holds, a should holds if one does
MatchesFilter(payload, q_filter) ==
  \A i \in DOMAIN q_filter.must :
    LET c == q_filter.must[i]
    IN IF "should" \in DOMAIN c
       THEN \E j \in DOMAIN c.should : MatchesField(payload, c.should[j])
       ELSE MatchesField(payload, c)

\* The possible answers to a query: limit of the matching points (which ones
\* depends on the query vector and the approximate search)
QueryPoints(points, q_filter, limit) ==
  LET matching == {p \in points : MatchesFilter(p.payload, q_filter)}
  IN {S \in SUBSET matching : Cardinality(S) = Min(limit, Cardinality(matching))}

\* ------------------------------------------------------------------------
\* Context resolver (context_resolver.py)
\* ------------------------------------------------------------------------
NoSearch == [made |-> FALSE]

\* A filter that names the organization only
TenantFilters_OrgOnly(org_id, building_id) ==
  <<FieldCondition("org_id", org_id)>>

TenantFilters(org_id, building_id) ==
  <<FieldCondition("org_id", org_id), FieldCondition("building_id", building_id)>>

FileFilters(file_ids) ==
  [should |-> [i \in DOMAIN file_ids |-> FieldCondition("file_id", file_ids[i])]]

ChunkOfPoint(point) ==
  [text |-> point.payload.text,
   chunk_index |-> Get(point.payload, "chunk_index", "None"),
   file_id |-> Get(point.payload, "file_id", "None")]

FormatResults(hits) ==
  IF \E p \in hits : "text" \notin DOMAIN p.payload
  THEN <<>>
  ELSE LET ordered == SetToSeq(hits)
       IN [i \in DOMAIN ordered |-> ChunkOfPoint(ordered[i])]

\* A search that answers a query error with a chunk that reports the error
SearchResults_ErrorChunk(collections, q_filter, top_k) ==
  {[chunks |-> <<[text |-> <<"text of", "query error">>, chunk_index |-> 0,
                  file_id |-> 0]>>,
    hits |-> {}, failed |-> TRUE]}
  \cup (IF CHAT_COLLECTION_NAME \in DOMAIN collections
        THEN {[chunks |-> FormatResults(S), hits |-> S, failed |-> FALSE] :
                S \in QueryPoints(collections[CHAT_COLLECTION_NAME], q_filter, top_k)}
        ELSE {})

\* collections is the content of the vector index service; a query on a
\* collection that does not exist, or any other client error, is caught
SearchResults(collections, q_filter, top_k) ==
  {[chunks |-> <<>>, hits |-> {}, failed |-> TRUE]}
  \cup (IF CHAT_COLLECTION_NAME \in DOMAIN collections
        THEN {[chunks |-> FormatResults(S), hits |-> S, failed |-> FALSE] :
                S \in QueryPoints(collections[CHAT_COLLECTION_NAME], q_filter, top_k)}
        ELSE {})

search_vector_store(collections, org_id, building_id, file_ids) ==
  LET must_filters ==
        TenantFilters(org_id, building_id)
        \o (IF file_ids # <<>> THEN <<FileFilters(file_ids)>> ELSE <<>>)
  IN SearchResults(collections, [must |-> must_filters], FILE_TOP_K)

search_vector_store_all_docs(collections, org_id, building_id) ==
  SearchResults(collections, [must |-> TenantFilters(org_id, building_id)],
                ALL_DOCS_TOP_K)

\* Replies of the embedding API to the query-time call:
\*   transport_error / http_error raise before the call is recorded,
\*   bad_shape raises after it is recorded, ok returns the vector
EmbeddingReplies == {"transport_error", "http_error", "bad_shape", "ok"}

get_embedding(reply) ==
  CASE reply = "transport_error" ->
         [raised |-> TRUE, error |-> "Read timed out", logged |-> FALSE]
    [] reply = "http_error" ->
         [raised |-> TRUE, error |-> "Embedding API error: 500", logged |-> FALSE]
    [] reply = "bad_shape" ->
         [raised |-> TRUE, error |-> "'data'", logged |-> TRUE]
    [] reply = "ok" ->
         [raised |-> FALSE, logged |-> TRUE]

SearchRecord(org_id, building_id, file_ids, r) ==
  [made |-> TRUE, org_id |-> org_id, building_id |-> building_id,
   file_ids |-> file_ids, hits |-> r.hits, failed |-> r.failed]

\* cause names what went wrong in a resolution, none when nothing did
SearchCause(r) ==
  IF r.failed THEN "vector_store"
  ELSE IF r.chunks = <<>> THEN "no_results" ELSE "none"

DbCause(db, found) ==
  IF db = "exception" THEN "db_exception"
  ELSE IF db = "no_row" \/ ~found THEN "missing_row" ELSE "none"

FormatContext(label, chunks) ==
  [i \in DOMAIN chunks |-> <<label, chunks[i].text>>]

\* Each resolver returns the set of its possible outcomes, one per reply of
\* the remote services: bundle is the returned dict, logged tells whether an
\* embedding call was recorded, search describes the index query made
\* FileResolverOutcomes is what _resolve_file_context returns for a list
\* of file ids that is not empty
FileResolverOutcomes(collections, file_ids, org_id, building_id) ==
  UNION {
    LET e == get_embedding(reply)
    IN IF e.raised
       THEN {[bundle |-> [context |-> <<>>, error |-> e.error],
              logged |-> e.logged, search |-> NoSearch, cause |-> "embedding"]}
       ELSE {[bundle |->
                IF r.chunks = <<>>
                THEN [context |-> <<>>, error |-> "No relevant content found"]
                ELSE [context |-> FormatContext("File", r.chunks),
                      chunks |-> r.chunks, file_ids |-> file_ids,
                      context_type |-> "file_context"],
              logged |-> e.logged,
              search |-> SearchRecord(org_id, building_id, file_ids, r),
              cause |-> SearchCause(r)] :
              r \in search_vector_store(collections, org_id, building_id, file_ids)}
    : reply \in EmbeddingReplies}

\* A file resolver without the check for an empty list of file ids
resolve_file_context_NoGuard(collections, file_ids, org_id, building_id) ==
  FileResolverOutcomes(collections, file_ids, org_id, building_id)

resolve_file_context(collections, file_ids, org_id, building_id) ==
  IF file_ids = <<>>
  THEN {[bundle |-> [context |-> <<>>, error |-> "No file IDs provided"],
         logged |-> FALSE, search |-> NoSearch, cause |-> "no_file_ids"]}
  ELSE FileResolverOutcomes(collections, file_ids, org_id, building_id)

resolve_vector_context(collections, message, org_id, building_id) ==
  UNION {
    LET e == get_embedding(reply)
    IN IF e.raised
       THEN {[bundle |-> [context |-> <<>>, error |-> e.error],
              logged |-> e.logged, search |-> NoSearch, cause |-> "embedding"]}
       ELSE {[bundle |->
                IF r.chunks = <<>>
                THEN [context |-> <<>>,
                      error |-> "No relevant content found in vector store"]
                ELSE [context |-> FormatContext("Source", r.chunks),
                      chunks |-> r.chunks, context_type |-> "vector_context",
                      search_query |-> message],
              logged |-> e.logged,
              search |-> SearchRecord(org_id, building_id, <<>>, r),
              cause |-> SearchCause(r)] :
              r \in search_vector_store_all_docs(collections, org_id, building_id)}
    : reply \in EmbeddingReplies}

\* Replies of the relational store: the connection or a query raises, or the
\* queries run on the current rows
DbReplies == {"exception", "no_row", "rows"}

\* A resolver that reports a missing building row without an error
resolve_building_context_NoError(building_id, org_id) ==
  {[bundle |->
      IF db = "exception"
      THEN [context |-> <<>>, error |-> "connection to server failed"]
      ELSE IF db = "rows"
              /\ \E b \in BuildingsTable : b.id = building_id /\ b.org_id = org_id
      THEN [context |-> <<<<"Building", building_id>>>>,
            building |-> building_id, context_type |-> "building_context"]
      ELSE [context |-> <<>>],
    logged |-> FALSE, search |-> NoSearch,
    cause |-> DbCause(db, \E b \in BuildingsTable :
                            b.id = building_id /\ b.org_id = org_id)] :
    db \in DbReplies}

resolve_building_context(building_id, org_id) ==
  {[bundle |->
      CASE db = "exception" ->
             [context |-> <<>>, error |-> "connection to server failed"]
        [] db = "no_row" ->
             [context |-> <<>>, error |-> "Building not found"]
        [] db = "rows" ->
             IF \E b \in BuildingsTable : b.id = building_id /\ b.org_id = org_id
             THEN [context |-> <<<<"Building", building_id>>>>,
                   building |-> building_id,
                   context_type |-> "building_context"]
             ELSE [context |-> <<>>, error |-> "Building not found"],
    logged |-> FALSE, search |-> NoSearch,
    cause |-> DbCause(db, \E b \in BuildingsTable :
                            b.id = building_id /\ b.org_id = org_id)] :
    db \in DbReplies}

resolve_organization_context(org_id, user_email) ==
  {[bundle |->
      CASE db = "exception" ->
             [context |-> <<>>, error |-> "connection to server failed"]
        [] db = "no_row" ->
             [context |-> <<>>, error |-> "Organization not found"]
        [] db = "rows" ->
             IF \E o \in OrganizationsTable : o.id = org_id
             THEN [context |-> <<<<"Organization", org_id>>>>,
                   organization |-> org_id,
                   buildings |-> SetToSeq({b.id : b \in {x \in BuildingsTable : x.org_id = org_id}}),
                   context_type |-> "organization_context"]
             ELSE [context |-> <<>>, error |-> "Organization not found"],
    logged |-> FALSE, search |-> NoSearch,
    cause |-> DbCause(db, \E o \in OrganizationsTable : o.id = org_id)] :
    db \in DbReplies}

resolve_general_context ==
  {[bundle |-> [context |-> <<<<"capabilities">>>>, context_type |-> "general"],
    logged |-> FALSE, search |-> NoSearch, cause |-> "none"]}

resolve_context(collections, context_type, message, file_ids, building_id, org_id, user_email) ==
  CASE context_type = "file_context" ->
         resolve_file_context(collections, file_ids, org_id, building_id)
    [] context_type = "building_context" ->
         resolve_building_context(building_id, org_id)
    [] context_type = "organization_context" ->
         resolve_organization_context(org_id, user_email)
    [] context_type = "vector_context" ->
         resolve_vector_context(collections, message, org_id, building_id)
    [] context_type = "general" -> resolve_general_context
    [] OTHER -> resolve_general_context

\* ------------------------------------------------------------------------
\* Prompt assembler (prompt_builder.py)
\* ------------------------------------------------------------------------
TRANSCRIPT_TURNS == 5
TRANSCRIPT_CHARS == 200

build_general_prompt ==
  [system_message |-> [template |-> "general"],
   context_type |-> "general", confidence |-> 70]

build_fallback_prompt ==
  [system_message |-> [template |-> "fallback"],
   context_type |-> "fallback", confidence |-> 50,
   error |-> "Fallback prompt used due to technical issues"]

\* build_prompt with its try/except: a context_data that is not a dict makes
\* the template raise and yields the fallback prompt
build_prompt(context_type, context_data) ==
  IF context_type \in {"file_context", "building_context",
                       "organization_context", "vector_context"}
  THEN IF ~IsDict(context_data) THEN build_fallback_prompt
       ELSE CASE context_type = "file_context" ->
                   [system_message |->
                      [template |-> "file_context",
                       context |-> Get(context_data, "context", <<"No file content available">>)],
                    context_type |-> "file_context",
                    file_ids |-> Get(context_data, "file_ids", <<>>),
                    chunks_used |-> Len(Get(context_data, "chunks", <<>>)),
                    confidence |-> Get(context_data, "confidence", 80)]
              [] context_type = "building_context" ->
                   [system_message |->
                      [template |-> "building_context",
                       context |-> Get(context_data, "context", <<"Building data not available">>)],
                    context_type |-> "building_context",
                    building_data |-> Get(context_data, "building", "None"),
                    confidence |-> Get(context_data, "confidence", 90)]
              [] context_type = "organization_context" ->
                   [system_message |->
                      [template |-> "organization_context",
                       context |-> Get(context_data, "context", <<"Organization data not available">>)],
                    context_type |-> "organization_context",
                    organization_data |-> Get(context_data, "organization", "None"),
                    buildings_count |-> Len(Get(context_data, "buildings", <<>>)),
                    confidence |-> Get(context_data, "confidence", 85)]
              [] context_type = "vector_context" ->
                   [system_message |->
                      [template |-> "vector_context",
                       context |-> Get(context_data, "context", <<"No relevant information found">>)],
                    context_type |-> "vector_context",
                    chunks_used |-> Len(Get(context_data, "chunks", <<>>)),
                    search_query |-> Get(context_data, "search_query", {}),
                    confidence |-> Get(context_data, "confidence", 80)]
  ELSE build_general_prompt

\* add_conversation_context raises when a recent turn is not a dict
ConversationContextRaises(message_history) ==
  \E i \in DOMAIN LastN(message_history, TRANSCRIPT_TURNS) :
     ~IsDict(LastN(message_history, TRANSCRIPT_TURNS)[i])

add_conversation_context(system_message, message_history) ==
  IF message_history = <<>> THEN system_message
  ELSE LET recent_messages == LastN(message_history, TRANSCRIPT_TURNS)
       IN [k \in DOMAIN system_message \cup {"transcript"} |->
             IF k = "transcript"
             THEN [i \in DOMAIN recent_messages |->
                     [role |-> Get(recent_messages[i], "role", "unknown"),
                      content |-> Min(Get(recent_messages[i], "content", 0),
                                      TRANSCRIPT_CHARS)]]
             ELSE system_message[k]]

\* A prompt stage that renders the general template whatever the type
orchestrator_build_prompt_IgnoresType(context_type, context_data, message_history) ==
  build_general_prompt

\* LLMOrchestrator._build_prompt
orchestrator_build_prompt(context_type, context_data, message_history) ==
  LET prompt_data == build_prompt(context_type, context_data)
  IN IF message_history = <<>> THEN prompt_data
     ELSE IF ConversationContextRaises(message_history)
     THEN [system_message |-> [template |-> "technical difficulties"],
           context_type |-> "fallback", confidence |-> 50]
     ELSE [prompt_data EXCEPT !.system_message =
             add_conversation_context(prompt_data.system_message, message_history)]

\* ------------------------------------------------------------------------
\* Generation client (LLMOrchestrator._generate_llm_response)
\* ------------------------------------------------------------------------
\* Replies of the completion API to the generation request:
\*   transport_error  requests.post raises (timeout after 30s, no network)
\*   http_error       response.ok is false
\*   no_choices       a 2xx body whose choice list is empty or missing
\*   ok               a 2xx body with a first choice
GenerationReplies == {"transport_error", "http_error", "no_choices", "ok"}

generate_llm_response(prompt_data, reply) ==
  CASE ~HasKey(prompt_data, "system_message") ->
         [raised |-> TRUE, error |-> "'system_message'", logged |-> FALSE]
    [] reply = "transport_error" ->
         [raised |-> TRUE, error |-> "Read timed out", logged |-> FALSE]
    [] reply = "http_error" ->
         [raised |-> TRUE, error |-> "OpenAI API error: 500", logged |-> FALSE]
    [] reply = "no_choices" ->
         [raised |-> TRUE, error |-> "No response from OpenAI", logged |-> TRUE]
    [] OTHER ->
         [raised |-> FALSE, logged |-> TRUE,
          value |-> [response |-> "assistant message", usage |-> ChatUsage,
                     model |-> "gpt-4o-mini"]]

\* ------------------------------------------------------------------------
\* Response formatting (LLMOrchestrator._format_response and
\* _generate_error_response)
\* ------------------------------------------------------------------------
FORMAT_APOLOGY == "I apologize, but I encountered an issue processing your request. Please try again."
GENERIC_APOLOGY == "I apologize, but I'm experiencing technical difficulties right now. Please try again in a moment."

format_response(llm_response, classification, context_data, prompt_data, tracker) ==
  IF ~HasKey(llm_response, "response") \/ ~HasKey(classification, "context_type")
     \/ ~IsDict(context_data) \/ ~IsDict(prompt_data)
  THEN [response |-> FORMAT_APOLOGY,
        metadata |-> [context_type |-> "fallback", confidence |-> 0,
                      error |-> "format error"],
        status |-> "error"]
  ELSE LET cost_summary == get_session_summary(tracker)
       IN [response |-> llm_response.response,
           metadata |->
             [context_type |-> classification.context_type,
              confidence |-> Get(classification, "confidence", 0),
              reason |-> Get(classification, "reason", ""),
              context_used |-> (Get(context_data, "context", <<>>) # <<>>),
              prompt_confidence |-> Get(prompt_data, "confidence", 0),
              model_used |-> Get(llm_response, "model", "gpt-4o-mini"),
              tokens_used |-> Get(Get(llm_response, "usage", EmptyDict), "total_tokens", 0),
              file_ids |-> Get(context_data, "file_ids", <<>>),
              chunks_used |-> Get(context_data, "chunks", <<>>),
              error |-> Get(context_data, "error", "None"),
              cost_summary |->
                [total_cost_usd |-> cost_summary.total_cost_usd,
                 total_api_calls |-> cost_summary.total_api_calls,
                 calls_by_type |-> cost_summary.calls_by_type]],
           status |-> "success"]

\* An error response that carries no status
generate_error_response_NoStatus(error_message) ==
  [response |-> GENERIC_APOLOGY,
   metadata |-> [context_type |-> "error", confidence |-> 0,
                 error |-> error_message]]

generate_error_response(error_message) ==
  [response |-> GENERIC_APOLOGY,
   metadata |-> [context_type |-> "error", confidence |-> 0,
                 error |-> error_message],
   status |-> "error"]

\* ------------------------------------------------------------------------
\* Chunking and embedding (process_and_embeds/lambda_function.py)
\* ------------------------------------------------------------------------
EMBEDDING_DIM == 1536

\* extract_text_from_file_bytes: one entry per page that has text
RECURSIVE ExtractPages(_, _)
ExtractPages(pages, page_num) ==
  IF page_num > Len(pages) THEN <<>>
  ELSE (IF pages[page_num] > 0
        THEN <<[page |-> page_num, word_count |-> pages[page_num]]>>
        ELSE <<>>) \o ExtractPages(pages, page_num + 1)

\* words[start:end] of a list of n words, as the word positions [lo, hi):
\* a negative index counts from the end, and an index beyond either end is
\* clamped to it
PyIndex(i, n) == IF i < 0 THEN (IF i + n < 0 THEN 0 ELSE i + n) ELSE Min(i, n)

PySlice(start, end, n) ==
  LET lo == PyIndex(start, n)
      hi == PyIndex(end, n)
  IN [lo |-> lo, hi |-> IF hi < lo THEN lo ELSE hi]

SlideForward_AddsOverlap(start, window_size, overlap) ==
  start + window_size + overlap

\* "start += window_size - overlap"
SlideForward(start, window_size, overlap) == start + window_size - overlap

\* The while loop of chunk_text on a text of n words, from start: the chunks
\* are word ranges [lo, hi)
RECURSIVE ChunkLoop(_, _, _, _)
ChunkLoop(start, n, window_size, overlap) ==
  IF start >= n THEN <<>>
  ELSE LET end == Min(start + window_size, n)
       IN <<[lo |-> start, hi |-> end]>>
          \o ChunkLoop(SlideForward(start, window_size, overlap), n,
                       window_size, overlap)

chunk_text(n, window_size, overlap) ==
  IF n <= window_size THEN <<[lo |-> 0, hi |-> n]>>
  ELSE ChunkLoop(0, n, window_size, overlap)

RECURSIVE create_chunks(_, _, _)
create_chunks(text_chunks, window_size, overlap) ==
  IF text_chunks = <<>> THEN <<>>
  ELSE LET entry == Head(text_chunks)
           chunks == chunk_text(entry.word_count, window_size, overlap)
       IN [i \in DOMAIN chunks |->
             [page |-> entry.page,
              text |-> <<entry.page, chunks[i].lo, chunks[i].hi>>,
              chunk_index |-> i - 1,
              total_chunks |-> Len(chunks),
              word_count |-> chunks[i].hi - chunks[i].lo,
              chunk_size |-> window_size,
              overlap |-> overlap]]
          \o create_chunks(Tail(text_chunks), window_size, overlap)

\* The vector the embedding model returns for a text
EmbeddingOf(text) == <<"vec", text>>

\* A batch that is always cut from the start of the list
Batch_FromStart(texts, i) == SubSeq(texts, 1, Min(BATCH_SIZE, Len(texts) - i))

\* texts[i:i + batch_size] for the 0-based offset i
Batch(texts, i) == SubSeq(texts, i + 1, Min(i + BATCH_SIZE, Len(texts)))

\* ------------------------------------------------------------------------
\* State
\* ------------------------------------------------------------------------
VARIABLES
  cpc,                 \* position of the chat handler
  nreq,                \* chat requests received so far
  req,                 \* the request being handled
  classification,      \* locals of generate_response
  processed_file_ids,
  context_data,
  prompt_data,
  llm_response,
  result,              \* what generate_response returned
  response,            \* what lambda_handler returned
  cost_tracker,        \* process-wide ledger of building_chat
  cost_monitor,        \* process-wide monitor of building_chat
  audit,               \* bookkeeping on the current request (not program state)
  collections,         \* vector index service: collection name -> points
  file_tracking,       \* relational table file_tracking
  file_chunk_vector,   \* relational table file_chunk_vector (shadow rows)
  s3_chunks,           \* chunks.json objects written to object storage
  next_uuid,           \* source of fresh point ids
  ipc,                 \* position of the ingestion chain
  ningest,             \* ingestions started so far
  ing,                 \* locals of the ingestion chain
  pe_response,         \* what process_and_embeds returned
  ei_response,         \* what embed_and_index returned
  fp_response          \* what file_processor returned

chat_vars ==
  <<cpc, nreq, req, classification, processed_file_ids, context_data,
    prompt_data, llm_response, result, response, cost_tracker, cost_monitor,
    audit>>
store_vars == <<collections, file_tracking, file_chunk_vector, s3_chunks, next_uuid>>
ingest_vars == <<ipc, ningest, ing, pe_response, ei_response, fp_response>>
vars == <<chat_vars, store_vars, ingest_vars>>

Nil == [pytype |-> "NoneType"]

\* failures: the stages of the current request that failed or returned an
\* unexpected result; stages: the stages run so far, in order
NewAudit ==
  [failures |-> {}, classifier_reply |-> "none", search |-> NoSearch,
   resolve_cause |-> "none", summary_logged |-> 0, monitor_added |-> 0,
   stages |-> <<>>]

\* How a reply of the completion API ends the classification request: it
\* failed before the call was recorded, or its content was or was not JSON
ReplyClass(reply) ==
  IF reply.kind \in {"transport_error", "http_error", "bad_shape"}
  THEN "failed" ELSE reply.kind

Fail(a, stage) == [a EXCEPT !.failures = @ \cup {stage}]
Ran(a, stage) == [a EXCEPT !.stages = Append(@, stage)]

Init ==
  /\ cpc = "idle"
  /\ nreq = 0
  /\ req = Nil
  /\ classification = Nil
  /\ processed_file_ids = <<>>
  /\ context_data = Nil
  /\ prompt_data = Nil
  /\ llm_response = Nil
  /\ result = Nil
  /\ response = Nil
  /\ cost_tracker = NewTracker
  /\ cost_monitor = NewMonitor
  /\ audit = NewAudit
  /\ collections = [c \in {CHAT_COLLECTION_NAME} |-> ExistingPoints]
  /\ file_tracking = ExistingFiles
  /\ file_chunk_vector = {}
  /\ s3_chunks = {}
  /\ next_uuid = 1
  /\ ipc = "idle"
  /\ ningest = 0
  /\ ing = Nil
  /\ pe_response = Nil
  /\ ei_response = Nil
  /\ fp_response = Nil

\* ------------------------------------------------------------------------
\* Chat handler (building_chat/lambda_function.py, llm_orchestrator.py)
\* ------------------------------------------------------------------------
\* db is the reply of the relational store: the connection or a query
\* raises, or the queries run on the current rows
validate_building_access(building_id, organization_id, user_email, db) ==
  IF user_email = "" THEN FALSE
  ELSE IF db = "exception" THEN FALSE
  ELSE LET rows == {b \in BuildingsTable : b.id = building_id}
           orgs == {o \in OrganizationsTable : o.id = organization_id}
       IN IF rows = {} THEN FALSE
          ELSE LET building == CHOOSE b \in rows : TRUE
               IN IF building.org_id # organization_id THEN FALSE
                  ELSE IF orgs = {} THEN FALSE
                  ELSE LET org == CHOOSE o \in orgs : TRUE
                       IN org.admin_email = user_email
                          \/ user_email \in building.manager_emails

\* A handler that starts the orchestration without the access check
HandlerBegin_NoAccessCheck ==
  /\ cpc = "idle"
  /\ ipc = "idle"
  /\ nreq < MaxRequests
  /\ nreq' = nreq + 1
  /\ cost_tracker' = reset_session(cost_tracker)
  /\ \E building_id \in Buildings, organization_id \in Orgs, user_email \in Users :
       \/ \E db \in {"exception", "rows"} :
            /\ ~validate_building_access(building_id, organization_id, user_email, db)
            /\ req' = [building_id |-> building_id,
                       organization_id |-> organization_id,
                       user_email |-> user_email]
            /\ cpc' = "responded"
            /\ response' = [statusCode |-> 403,
                            body |-> [error |-> "Access denied"]]
       \/ /\ TRUE
          /\ \E message \in Messages, message_history \in Histories,
                file_ids \in FileIdLists, file_url \in FileUrls :
               req' = [message |-> message, message_history |-> message_history,
                       building_id |-> building_id,
                       organization_id |-> organization_id,
                       user_email |-> user_email, file_ids |-> file_ids,
                       file_url |-> file_url]
          /\ cpc' = "classify"
          /\ response' = Nil
  /\ classification' = Nil
  /\ processed_file_ids' = <<>>
  /\ context_data' = Nil
  /\ prompt_data' = Nil
  /\ llm_response' = Nil
  /\ result' = Nil
  /\ audit' = NewAudit
  /\ UNCHANGED <<cost_monitor, store_vars, ingest_vars>>

\* lambda_handler up to the call of generate_response; a request that is
\* denied is answered before the rest of its body is used
HandlerBegin ==
  /\ cpc = "idle"
  /\ ipc = "idle"
  /\ nreq < MaxRequests
  /\ nreq' = nreq + 1
  /\ cost_tracker' = reset_session(cost_tracker)
  /\ \E building_id \in Buildings, organization_id \in Orgs, user_email \in Users :
       \/ \E db \in {"exception", "rows"} :
            /\ ~validate_building_access(building_id, organization_id, user_email, db)
            /\ req' = [building_id |-> building_id,
                       organization_id |-> organization_id,
                       user_email |-> user_email]
            /\ cpc' = "responded"
            /\ response' = [statusCode |-> 403,
                            body |-> [error |-> "Access denied"]]
       \/ /\ validate_building_access(building_id, organization_id, user_email, "rows")
          /\ \E message \in Messages, message_history \in Histories,
                file_ids \in FileIdLists, file_url \in FileUrls :
               req' = [message |-> message, message_history |-> message_history,
                       building_id |-> building_id,
                       organization_id |-> organization_id,
                       user_email |-> user_email, file_ids |-> file_ids,
                       file_url |-> file_url]
          /\ cpc' = "classify"
          /\ response' = Nil
  /\ classification' = Nil
  /\ processed_file_ids' = <<>>
  /\ context_data' = Nil
  /\ prompt_data' = Nil
  /\ llm_response' = Nil
  /\ result' = Nil
  /\ audit' = NewAudit
  /\ UNCHANGED <<cost_monitor, store_vars, ingest_vars>>

\* Step 1 of generate_response, up to the read of classification['context_type'];
\* when generate_response returns, here or in a later step, its locals are gone
ClassifyContext ==
  /\ cpc = "classify"
  /\ \E reply \in ClassifierReplies :
       LET c == classify(req.message, req.message_history, req.file_ids,
                         req.building_id, reply)
           a == [Ran(audit, "classify") EXCEPT
                   !.classifier_reply = ReplyClass(reply)]
       IN /\ cost_tracker' =
               IF c.logged
               THEN log_api_call(cost_tracker, "classification", "gpt-4o-mini", ChatUsage)
               ELSE cost_tracker
          /\ audit' = IF reply.kind = "json"
                         /\ HasKey(reply.value, "context_type")
                         /\ reply.value.context_type \in ContextTypes
                      THEN a ELSE Fail(a, "classification")
          /\ IF HasKey(c.value, "context_type")
             THEN /\ cpc' = "process_file"
                  /\ classification' = c.value
                  /\ result' = result
             ELSE /\ cpc' = "handler_end"
                  /\ classification' = Nil
                  /\ result' = generate_error_response(
                                  IF IsDict(c.value) THEN "'context_type'"
                                  ELSE "list indices must be integers or slices, not str")
  /\ UNCHANGED <<nreq, req, processed_file_ids, context_data, prompt_data,
                 llm_response, response, cost_monitor, store_vars, ingest_vars>>

Truthy(file_url) == IsDict(file_url)

\* Step 2: _process_file_if_needed up to the invocation of file_processor
ProcessFileIfNeeded ==
  /\ cpc = "process_file"
  /\ LET existing_file_ids == req.file_ids
         file_url == req.file_url
         skip == /\ cpc' = "resolve"
                 /\ processed_file_ids' = existing_file_ids
                 /\ UNCHANGED ingest_vars
     IN IF ~Get(classification, "requires_file_processing", FALSE) \/ ~Truthy(file_url)
        THEN skip /\ audit' = Ran(audit, "process_file")
        ELSE IF file_url.scheme # "s3" \/ Len(file_url.parts) # 2
        THEN skip /\ audit' = Fail(Ran(audit, "process_file"), "ingestion")
        ELSE \/ \* lambda_client.invoke raises
                skip /\ audit' = Fail(Ran(audit, "process_file"), "ingestion")
             \/ /\ ningest < MaxIngests
                /\ cpc' = "ingest_wait"
                /\ ipc' = "fp_invoked"
                /\ ningest' = ningest + 1
                /\ ing' = [caller |-> "chat",
                           event |-> [org_id |-> req.organization_id,
                                      building_id |-> req.building_id,
                                      source |-> "chat",
                                      file_path |-> file_url.parts[2],
                                      file_url |-> file_url]]
                /\ audit' = Ran(audit, "process_file")
                /\ UNCHANGED <<processed_file_ids, pe_response, ei_response, fp_response>>
  /\ UNCHANGED <<nreq, req, classification, context_data, prompt_data,
                 llm_response, result, response, cost_tracker, cost_monitor,
                 store_vars>>

\* A return that drops the file list when the processor reports a failure
ProcessFileReturn_DropsFileList ==
  /\ cpc = "ingest_wait"
  /\ ipc = "fp_done"
  /\ LET existing_file_ids == req.file_ids
         invoke_raised == ~HasKey(fp_response, "body")
         fp_result == fp_response.body
     IN IF invoke_raised
        THEN /\ processed_file_ids' = existing_file_ids
             /\ audit' = Fail(audit, "ingestion")
        ELSE IF Get(fp_result, "status", "None") = "success"
        THEN IF "file_id" \in DOMAIN fp_result
             THEN /\ processed_file_ids' = <<fp_result.file_id>> \o existing_file_ids
                  /\ audit' = audit
             ELSE /\ processed_file_ids' = existing_file_ids
                  /\ audit' = Fail(audit, "ingestion")
        ELSE /\ processed_file_ids' = <<>>
             /\ audit' = Fail(audit, "ingestion")
  /\ cpc' = "resolve"
  /\ ipc' = "idle"
  /\ ing' = Nil
  /\ pe_response' = Nil
  /\ ei_response' = Nil
  /\ fp_response' = Nil
  /\ UNCHANGED <<nreq, req, classification, context_data, prompt_data,
                 llm_response, result, response, cost_tracker, cost_monitor,
                 store_vars, ningest>>

\* invoke_file_processor_lambda after the invocation returned, and the rest
\* of _process_file_if_needed
ProcessFileReturn ==
  /\ cpc = "ingest_wait"
  /\ ipc = "fp_done"
  /\ LET existing_file_ids == req.file_ids
         invoke_raised == ~HasKey(fp_response, "body")
         fp_result == fp_response.body
     IN IF invoke_raised
        THEN /\ processed_file_ids' = existing_file_ids
             /\ audit' = Fail(audit, "ingestion")
        ELSE IF Get(fp_result, "status", "None") = "success"
        THEN IF "file_id" \in DOMAIN fp_result
             THEN /\ processed_file_ids' = <<fp_result.file_id>> \o existing_file_ids
                  /\ audit' = audit
             ELSE /\ processed_file_ids' = existing_file_ids
                  /\ audit' = Fail(audit, "ingestion")
        ELSE /\ processed_file_ids' = existing_file_ids
             /\ audit' = Fail(audit, "ingestion")
  /\ cpc' = "resolve"
  /\ ipc' = "idle"
  /\ ing' = Nil
  /\ pe_response' = Nil
  /\ ei_response' = Nil
  /\ fp_response' = Nil
  /\ UNCHANGED <<nreq, req, classification, context_data, prompt_data,
                 llm_response, result, response, cost_tracker, cost_monitor,
                 store_vars, ningest>>

\* Step 3: _resolve_context
ResolveContext ==
  /\ cpc = "resolve"
  /\ \E o \in resolve_context(collections, classification.context_type,
                              req.message, processed_file_ids, req.building_id,
                              req.organization_id, req.user_email) :
       /\ context_data' = o.bundle
       /\ cost_tracker' =
            IF o.logged
            THEN log_api_call(cost_tracker, "embedding", "text-embedding-3-small",
                              EmbeddingUsage)
            ELSE cost_tracker
       /\ audit' = LET a == [Ran(audit, "resolve") EXCEPT !.search = o.search,
                                                          !.resolve_cause = o.cause]
                   IN IF o.cause # "none" THEN Fail(a, "resolution") ELSE a
  /\ cpc' = "build_prompt"
  /\ UNCHANGED <<nreq, req, classification, processed_file_ids, prompt_data,
                 llm_response, result, response, cost_monitor, store_vars,
                 ingest_vars>>

\* Step 4: _build_prompt
BuildPrompt ==
  /\ cpc = "build_prompt"
  /\ prompt_data' = orchestrator_build_prompt(classification.context_type,
                                              context_data, req.message_history)
  /\ audit' = IF prompt_data'.context_type = "fallback"
              THEN Fail(Ran(audit, "build_prompt"), "prompt")
              ELSE Ran(audit, "build_prompt")
  /\ cpc' = "generate"
  /\ UNCHANGED <<nreq, req, classification, processed_file_ids, context_data,
                 llm_response, result, response, cost_tracker, cost_monitor,
                 store_vars, ingest_vars>>

\* Step 5: _generate_llm_response; an exception ends generate_response in
\* _generate_error_response
GenerateLlmResponse ==
  /\ cpc = "generate"
  /\ \E reply \in GenerationReplies :
       LET g == generate_llm_response(prompt_data, reply)
       IN /\ cost_tracker' =
               IF g.logged
               THEN log_api_call(cost_tracker, "chat", "gpt-4o-mini", ChatUsage)
               ELSE cost_tracker
          /\ IF g.raised
             THEN /\ result' = generate_error_response(g.error)
                  /\ llm_response' = llm_response
                  /\ cpc' = "handler_end"
                  /\ audit' = Fail(Ran(audit, "generate"), "generation")
                  /\ classification' = Nil
                  /\ processed_file_ids' = <<>>
                  /\ context_data' = Nil
                  /\ prompt_data' = Nil
             ELSE /\ llm_response' = g.value
                  /\ result' = result
                  /\ cpc' = "format"
                  /\ audit' = Ran(audit, "generate")
                  /\ UNCHANGED <<classification, processed_file_ids,
                                 context_data, prompt_data>>
  /\ UNCHANGED <<nreq, req, response, cost_monitor, store_vars, ingest_vars>>

\* Step 6: _format_response and the return of generate_response
FormatResponse ==
  /\ cpc = "format"
  /\ result' = format_response(llm_response, classification, context_data,
                               prompt_data, cost_tracker)
  /\ audit' = Ran(audit, "format")
  /\ cpc' = "handler_end"
  /\ classification' = Nil
  /\ processed_file_ids' = <<>>
  /\ context_data' = Nil
  /\ prompt_data' = Nil
  /\ llm_response' = Nil
  /\ UNCHANGED <<nreq, req, response, cost_tracker, cost_monitor, store_vars,
                 ingest_vars>>

\* A handler that records usage for successful responses only
HandlerEnd_SuccessOnly ==
  /\ cpc = "handler_end"
  /\ IF Get(result, "status", "None") = "success"
     THEN /\ cost_monitor' = add_session_costs(cost_monitor,
                                               get_session_summary(cost_tracker))
          /\ audit' = [audit EXCEPT !.summary_logged = @ + 1,
                                    !.monitor_added = @ + 1]
     ELSE UNCHANGED <<cost_monitor, audit>>
  /\ response' =
       IF Get(result, "status", "None") = "success"
       THEN [statusCode |-> 200,
             body |-> [response |-> result.response,
                       metadata |-> Get(result, "metadata", EmptyDict)]]
       ELSE [statusCode |-> 500,
             body |-> [error |-> Get(result, "response", "An error occurred"),
                       metadata |-> Get(result, "metadata", EmptyDict)]]
  /\ cpc' = "responded"
  /\ req' = Nil
  /\ UNCHANGED <<nreq, classification, processed_file_ids, context_data,
                 prompt_data, llm_response, result, cost_tracker, store_vars,
                 ingest_vars>>

\* lambda_handler after generate_response returned; with the return of the
\* response the locals of the handler are gone
HandlerEnd ==
  /\ cpc = "handler_end"
  /\ cost_monitor' = add_session_costs(cost_monitor, get_session_summary(cost_tracker))
  /\ audit' = [audit EXCEPT !.summary_logged = @ + 1, !.monitor_added = @ + 1]
  /\ response' =
       IF Get(result, "status", "None") = "success"
       THEN [statusCode |-> 200,
             body |-> [response |-> result.response,
                       metadata |-> Get(result, "metadata", EmptyDict)]]
       ELSE [statusCode |-> 500,
             body |-> [error |-> Get(result, "response", "An error occurred"),
                       metadata |-> Get(result, "metadata", EmptyDict)]]
  /\ cpc' = "responded"
  /\ req' = Nil
  /\ UNCHANGED <<nreq, classification, processed_file_ids, context_data,
                 prompt_data, llm_response, result, cost_tracker, store_vars,
                 ingest_vars>>

\* The response is delivered and the locals of the invocation are gone; the
\* process-wide ledger and monitor stay for the next invocation of the worker
Respond ==
  /\ cpc = "responded"
  /\ cpc' = "idle"
  /\ req' = Nil
  /\ result' = Nil
  /\ response' = Nil
  /\ audit' = NewAudit
  /\ UNCHANGED <<nreq, classification, processed_file_ids, context_data,
                 prompt_data, llm_response, cost_tracker, cost_monitor,
                 store_vars, ingest_vars>>

\* ------------------------------------------------------------------------
\* Ingestion chain: file_processor -> embed_and_index -> process_and_embeds
\* ------------------------------------------------------------------------
UploadUrls ==
  {Url("s3", <<"bucket", "a.pdf">>), Url("s3", <<"bucket", "scan.pdf">>),
   Url("s3", <<"bucket", "big.pdf">>)}

\* Outcome of a call to a remote service that either returns or raises
CallOutcomes == {"ok", "error"}

LambdaResponse(statusCode, body) == [statusCode |-> statusCode, body |-> body]

ErrorMessage(message) == [status |-> "error", message |-> message]
ErrorResult(error) == [status |-> "error", error |-> error]

\* A document is uploaded: the upload flow invokes file_processor
Upload ==
  /\ ipc = "idle"
  /\ cpc = "idle"
  /\ ningest < MaxIngests
  /\ \E org_id \in Orgs, building_id \in Buildings, file_url \in UploadUrls :
       ing' = [caller |-> "upload",
               event |-> [org_id |-> org_id, building_id |-> building_id,
                          source |-> "upload", file_url |-> file_url]]
  /\ ipc' = "fp_invoked"
  /\ ningest' = ningest + 1
  /\ UNCHANGED <<chat_vars, store_vars, pe_response, ei_response, fp_response>>

FpFail(message) ==
  /\ fp_response' = LambdaResponse(500, ErrorMessage(message))
  /\ ipc' = "fp_done"
  /\ ing' = [k \in DOMAIN ing \cup {"failed_step"} |->
               IF k = "failed_step" THEN "file_processor" ELSE ing[k]]
  /\ UNCHANGED <<pe_response, ei_response, ningest>>

\* file_processor.lambda_handler up to the invocation of embed_and_index
FileProcessorBegin ==
  /\ ipc = "fp_invoked"
  /\ LET file_url == ing.event.file_url
     IN IF ~Truthy(file_url)
        THEN /\ fp_response' = LambdaResponse(400, ErrorMessage("file_url is required in the event payload"))
             /\ ipc' = "fp_done"
             /\ UNCHANGED <<ing, file_tracking, pe_response, ei_response, ningest>>
        ELSE IF file_url.scheme # "s3" \/ Len(file_url.parts) # 2
        THEN FpFail("Invalid S3 URL format") /\ UNCHANGED file_tracking
        ELSE \E s3 \in CallOutcomes, db \in CallOutcomes, invoke \in CallOutcomes :
               LET path == file_url.parts[2]
                   file_id == Len(file_tracking) + 1
                   row == [id |-> file_id, file_name |-> path, file_path |-> path,
                           building_id |-> ing.event.building_id,
                           org_id |-> ing.event.org_id,
                           file_status |-> "processing",
                           source |-> ing.event.source]
               IN IF s3 = "error" \/ path \notin DOMAIN S3Documents
                  THEN FpFail("get_object failed") /\ UNCHANGED file_tracking
                  ELSE IF db = "error"
                  THEN FpFail("insert failed") /\ UNCHANGED file_tracking
                  ELSE /\ file_tracking' = Append(file_tracking, row)
                       /\ IF invoke = "error"
                          THEN FpFail("invoke failed")
                          ELSE /\ ing' = [k \in DOMAIN ing \cup {"file_id", "bucket", "path"} |->
                                            CASE k = "file_id" -> file_id
                                              [] k = "bucket" -> file_url.parts[1]
                                              [] k = "path" -> path
                                              [] OTHER -> ing[k]]
                               /\ ipc' = "ei_invoked"
                               /\ UNCHANGED <<pe_response, ei_response, fp_response, ningest>>
  /\ UNCHANGED <<chat_vars, collections, file_chunk_vector, s3_chunks, next_uuid>>

EiFail(step, body) ==
  /\ ei_response' = LambdaResponse(500, body)
  /\ ipc' = "ei_done"
  /\ ing' = [k \in DOMAIN ing \cup {"failed_step"} |->
               IF k = "failed_step"
               THEN (IF "failed_step" \in DOMAIN ing THEN ing.failed_step ELSE step)
               ELSE ing[k]]

\* embed_and_index.lambda_handler up to the invocation of process_and_embeds
EmbedAndIndexBegin ==
  /\ ipc = "ei_invoked"
  /\ \E invoke \in CallOutcomes :
       IF invoke = "error"
       THEN EiFail("invoke", ErrorMessage("invoke failed"))
       ELSE /\ ipc' = "pe_invoked"
            /\ UNCHANGED <<ing, ei_response>>
  /\ UNCHANGED <<chat_vars, store_vars, pe_response, fp_response, ningest>>

PeFail(step, statusBody) ==
  /\ pe_response' = LambdaResponse(500, statusBody)
  /\ ipc' = "pe_done"
  /\ ing' = [k \in DOMAIN ing \cup {"failed_step"} |->
               IF k = "failed_step" THEN step ELSE ing[k]]

\* process_and_embeds.lambda_handler: fetch the file, extract the pages and
\* create the chunks (process_file_bytes up to generate_embeddings)
ProcessAndEmbedBegin ==
  /\ ipc = "pe_invoked"
  /\ \E s3 \in CallOutcomes, extract \in CallOutcomes :
       IF s3 = "error"
       THEN PeFail("fetch", ErrorMessage("get_object failed"))
       ELSE IF extract = "error"
       THEN PeFail("extraction", ErrorResult("cannot open broken document"))
       ELSE LET text_chunks == ExtractPages(S3Documents[ing.path], 1)
            IN IF text_chunks = <<>>
               THEN PeFail("extraction", ErrorResult("No text was extracted from the file!"))
               ELSE /\ ing' = [k \in DOMAIN ing \cup {"chunked_docs", "embeddings", "batch_start"} |->
                                 CASE k = "chunked_docs" ->
                                        create_chunks(text_chunks, WINDOW_SIZE, OVERLAP)
                                   [] k = "embeddings" -> <<>>
                                   [] k = "batch_start" -> 0
                                   [] OTHER -> ing[k]]
                    /\ ipc' = "pe_embedding"
                    /\ UNCHANGED pe_response
  /\ UNCHANGED <<chat_vars, store_vars, ei_response, fp_response, ningest>>

\* A process_file_bytes that returns the embeddings it has when a batch fails
process_file_bytes_result_Partial(chunked_docs, embeddings, raised) ==
  LambdaResponse(200,
    [status |-> "success", chunks |-> chunked_docs, embeddings |-> embeddings,
     stats |-> [num_chunks |-> Len(chunked_docs),
                embedding_dim |-> EMBEDDING_DIM,
                file_size_bytes |-> "len(file_content)",
                chunking_config |-> [window_size |-> WINDOW_SIZE,
                                     overlap |-> OVERLAP]]])

\* What process_file_bytes returns once generate_embeddings returned or raised
process_file_bytes_result(chunked_docs, embeddings, raised) ==
  IF raised
  THEN LambdaResponse(500, ErrorResult("Read timed out"))
  ELSE LambdaResponse(200,
         [status |-> "success", chunks |-> chunked_docs, embeddings |-> embeddings,
          stats |-> [num_chunks |-> Len(chunked_docs),
                     embedding_dim |-> EMBEDDING_DIM,
                     file_size_bytes |-> "len(file_content)",
                     chunking_config |-> [window_size |-> WINDOW_SIZE,
                                          overlap |-> OVERLAP]]])

\* One iteration of the loop of generate_embeddings: one embedding call
GenerateEmbeddingsBatch ==
  /\ ipc = "pe_embedding"
  /\ \E call \in CallOutcomes :
       LET texts == [i \in DOMAIN ing.chunked_docs |-> ing.chunked_docs[i].text]
           batch == Batch(texts, ing.batch_start)
           all_embeddings ==
             ing.embeddings \o [i \in DOMAIN batch |-> EmbeddingOf(batch[i])]
           next_start == ing.batch_start + BATCH_SIZE
       IN IF call = "error"
          THEN /\ pe_response' = process_file_bytes_result(ing.chunked_docs, ing.embeddings, TRUE)
               /\ ipc' = "pe_done"
               /\ ing' = [k \in DOMAIN ing \cup {"failed_step"} |->
                            IF k = "failed_step" THEN "embedding" ELSE ing[k]]
          ELSE IF next_start >= Len(texts)
          THEN /\ pe_response' = process_file_bytes_result(ing.chunked_docs, all_embeddings, FALSE)
               /\ ipc' = "pe_done"
               /\ ing' = [ing EXCEPT !.embeddings = all_embeddings,
                                     !.batch_start = next_start]
          ELSE /\ ing' = [ing EXCEPT !.embeddings = all_embeddings,
                                     !.batch_start = next_start]
               /\ UNCHANGED <<pe_response, ipc>>
  /\ UNCHANGED <<chat_vars, store_vars, ei_response, fp_response, ningest>>

\* Points whose ids are their positions in the document
BuildPoints_PositionIds(chunks, embeddings, org_id, building_id, file_id, bucket, path, first_id) ==
  [i \in 1..Min(Len(chunks), Len(embeddings)) |->
     [id |-> i,
      vector |-> embeddings[i],
      payload |-> [org_id |-> org_id, building_id |-> building_id,
                   file_id |-> file_id, text |-> chunks[i].text,
                   page |-> chunks[i].page,
                   custom_id |-> <<"vs", org_id, building_id, file_id, i - 1>>,
                   word_count |-> chunks[i].word_count,
                   source |-> <<"s3", bucket, path>>,
                   chunk_index |-> i - 1]]]

\* The points process_and_store builds from zip(chunks, embeddings)
BuildPoints(chunks, embeddings, org_id, building_id, file_id, bucket, path, first_id) ==
  [i \in 1..Min(Len(chunks), Len(embeddings)) |->
     [id |-> first_id + i - 1,
      vector |-> embeddings[i],
      payload |-> [org_id |-> org_id, building_id |-> building_id,
                   file_id |-> file_id, text |-> chunks[i].text,
                   page |-> chunks[i].page,
                   custom_id |-> <<"vs", org_id, building_id, file_id, i - 1>>,
                   word_count |-> chunks[i].word_count,
                   source |-> <<"s3", bucket, path>>,
                   chunk_index |-> i - 1]]]

Range(f) == {f[i] : i \in DOMAIN f}

\* q_client.upsert: points are stored under their ids
UpsertPoints(points, new) ==
  {p \in points : \A n \in new : n.id # p.id} \cup new

\* The row create_file_chunk_vector writes for a point
ShadowRow(file_id, point) ==
  [file_id |-> file_id, qdrant_id |-> point.id, embedding |-> point.vector,
   chunk_index |-> Get(point.payload, "chunk_index", "None"),
   page_number |-> Get(point.payload, "page", "None"),
   word_count |-> Get(point.payload, "word_count", "None"),
   chunk_size |-> Get(point.payload, "chunk_size", WINDOW_SIZE),
   overlap |-> Get(point.payload, "overlap", OVERLAP),
   text |-> Get(point.payload, "text", "None")]

\* embed_and_index.lambda_handler after process_and_embeds returned:
\* RAGPipeline() and process_and_store up to the upsert
ProcessAndStoreUpsert ==
  /\ ipc = "pe_done"
  /\ LET process_result == pe_response.body
     IN IF process_result.status # "success"
        THEN /\ EiFail("process_and_embeds", process_result)
             /\ UNCHANGED <<collections, next_uuid>>
        ELSE \E ensure \in CallOutcomes, upsert \in CallOutcomes :
               LET exists == INGEST_COLLECTION_NAME \in DOMAIN collections
                   created == [c \in DOMAIN collections \cup {INGEST_COLLECTION_NAME} |->
                                 IF c \in DOMAIN collections THEN collections[c] ELSE {}]
                   points == BuildPoints(process_result.chunks, process_result.embeddings,
                                         ing.event.org_id, ing.event.building_id,
                                         ing.file_id, ing.bucket, ing.path, next_uuid)
               IN IF ensure = "error"
                  THEN /\ EiFail("collection", ErrorMessage("collection check failed"))
                       /\ UNCHANGED <<collections, next_uuid>>
                  ELSE IF upsert = "error"
                  THEN /\ EiFail("upsert", ErrorResult("upsert failed"))
                       /\ collections' = created
                       /\ next_uuid' = next_uuid + Len(points)
                  ELSE /\ collections' =
                            [created EXCEPT ![INGEST_COLLECTION_NAME] =
                               UpsertPoints(@, Range(points))]
                       /\ next_uuid' = next_uuid + Len(points)
                       /\ ing' = [k \in DOMAIN ing \cup {"vectors_to_upsert", "stats"} |->
                                    CASE k = "vectors_to_upsert" -> points
                                      [] k = "stats" -> process_result.stats
                                      [] OTHER -> ing[k]]
                       /\ ipc' = "ei_shadow"
                       /\ UNCHANGED ei_response
  /\ pe_response' = Nil
  /\ UNCHANGED <<chat_vars, file_tracking, file_chunk_vector, s3_chunks,
                 fp_response, ningest>>

\* create_file_chunk_vector: the rows are committed together or not at all
CreateFileChunkVector ==
  /\ ipc = "ei_shadow"
  /\ \E db \in CallOutcomes :
       IF db = "error"
       THEN /\ EiFail("shadow_copy", ErrorResult("insert failed"))
            /\ UNCHANGED file_chunk_vector
       ELSE /\ file_chunk_vector' =
                 file_chunk_vector
                 \cup {ShadowRow(ing.file_id, ing.vectors_to_upsert[i]) :
                         i \in DOMAIN ing.vectors_to_upsert}
            /\ ipc' = "ei_save"
            /\ UNCHANGED <<ing, ei_response>>
  /\ UNCHANGED <<chat_vars, collections, file_tracking, s3_chunks, next_uuid,
                 pe_response, fp_response, ningest>>

\* _save_chunks_to_s3 and the return of process_and_store and lambda_handler
SaveChunksToS3 ==
  /\ ipc = "ei_save"
  /\ \E s3 \in CallOutcomes :
       IF s3 = "error"
       THEN /\ EiFail("save_chunks", ErrorResult("put_object failed"))
            /\ UNCHANGED s3_chunks
       ELSE /\ s3_chunks' = s3_chunks \cup
                 {[bucket |-> ing.bucket, key |-> <<"processed", ing.path, "chunks.json">>,
                   chunks |-> ing.chunked_docs]}
            /\ ei_response' =
                 LambdaResponse(200,
                   [status |-> "success",
                    file_url |-> <<"s3", ing.bucket, ing.path>>,
                    vectors_location |-> [qdrant_collection |-> INGEST_COLLECTION_NAME],
                    stats |-> ing.stats,
                    process_complete |-> TRUE])
            /\ ipc' = "ei_done"
            /\ UNCHANGED ing
  /\ UNCHANGED <<chat_vars, collections, file_tracking, file_chunk_vector,
                 next_uuid, pe_response, fp_response, ningest>>

\* file_processor.lambda_handler after invoke_function returned the decoded
\* payload of embed_and_index
file_processor_result(embed_and_index_result) ==
  IF ~HasKey(embed_and_index_result, "status")
  THEN LambdaResponse(500, ErrorMessage("'status'"))
  ELSE IF embed_and_index_result.status # "success"
  THEN LambdaResponse(500, embed_and_index_result)
  ELSE LambdaResponse(200,
         [status |-> "success", rag_result |-> embed_and_index_result,
          next_steps |-> "TODO: Add orchestration logic for next steps"])

FileProcessorEnd ==
  /\ ipc = "ei_done"
  /\ fp_response' = file_processor_result(ei_response)
  /\ ipc' = "fp_done"
  /\ UNCHANGED <<chat_vars, store_vars, ing, pe_response, ei_response, ningest>>

\* The upload flow receives the response of file_processor
UploadDone ==
  /\ ipc = "fp_done"
  /\ ing.caller = "upload"
  /\ ipc' = "idle"
  /\ ing' = Nil
  /\ pe_response' = Nil
  /\ ei_response' = Nil
  /\ fp_response' = Nil
  /\ UNCHANGED <<chat_vars, store_vars, ningest>>

\* ------------------------------------------------------------------------
\* Specification
\* ------------------------------------------------------------------------
\* The steps of the ingestion chain, whoever invoked file_processor
IngestionChain ==
  \/ FileProcessorBegin
  \/ EmbedAndIndexBegin
  \/ ProcessAndEmbedBegin
  \/ GenerateEmbeddingsBatch
  \/ ProcessAndStoreUpsert
  \/ CreateFileChunkVector
  \/ SaveChunksToS3
  \/ FileProcessorEnd

\* A chat worker and the ingestions its requests trigger
Next ==
  \/ HandlerBegin
  \/ ClassifyContext
  \/ ProcessFileIfNeeded
  \/ ProcessFileReturn
  \/ ResolveContext
  \/ BuildPrompt
  \/ GenerateLlmResponse
  \/ FormatResponse
  \/ HandlerEnd
  \/ Respond
  \/ IngestionChain

Spec == Init /\ [][Next]_vars

\* Ingestions of uploaded documents
IngestNext ==
  \/ Upload
  \/ IngestionChain
  \/ UploadDone

IngestSpec == Init /\ [][IngestNext]_vars

\* A reused worker: the process has served one earlier request, whose only
\* recorded call was the generation call, so the process-wide ledger still
\* holds that record and the monitor that request's summary
WarmTracker == log_api_call(NewTracker, "chat", "gpt-4o-mini", ChatUsage)
WarmMonitor == add_session_costs(NewMonitor, get_session_summary(WarmTracker))

WarmInit ==
  /\ cpc = "idle"
  /\ nreq = 0
  /\ req = Nil
  /\ classification = Nil
  /\ processed_file_ids = <<>>
  /\ context_data = Nil
  /\ prompt_data = Nil
  /\ llm_response = Nil
  /\ result = Nil
  /\ response = Nil
  /\ cost_tracker = WarmTracker
  /\ cost_monitor = WarmMonitor
  /\ audit = NewAudit
  /\ collections = [c \in {CHAT_COLLECTION_NAME} |-> ExistingPoints]
  /\ file_tracking = ExistingFiles
  /\ file_chunk_vector = {}
  /\ s3_chunks = {}
  /\ next_uuid = 1
  /\ ipc = "idle"
  /\ ningest = 0
  /\ ing = Nil
  /\ pe_response = Nil
  /\ ei_response = Nil
  /\ fp_response = Nil

WarmSpec == WarmInit /\ [][Next]_vars

\* The classifier alone: classify is called with any inputs on a fresh ledger
ClassifierRun ==
  /\ cpc = "idle"
  /\ ipc = "idle"
  /\ \E message \in Messages, message_history \in Histories,
        file_ids \in FileIdLists, building_id \in Buildings,
        reply \in ClassifierReplies :
       LET c == classify(message, message_history, file_ids, building_id, reply)
       IN /\ req' = [message |-> message, message_history |-> message_history,
                     file_ids |-> file_ids, building_id |-> building_id]
          /\ classification' = c.value
          /\ cost_tracker' =
               IF c.logged
               THEN log_api_call(reset_session(cost_tracker), "classification",
                                 "gpt-4o-mini", ChatUsage)
               ELSE reset_session(cost_tracker)
          /\ audit' = [Ran(NewAudit, "classify") EXCEPT
                         !.classifier_reply = ReplyClass(reply)]
  /\ UNCHANGED <<cpc, nreq, processed_file_ids, context_data, prompt_data,
                 llm_response, result, response, cost_monitor, store_vars,
                 ingest_vars>>

ClassifierNext == ClassifierRun

ClassifierSpec == Init /\ [][ClassifierNext]_vars

\* ------------------------------------------------------------------------
\* chunk_text alone, one loop iteration at a time, on a text of n words
\* with any window_size and overlap (process_and_embeds/lambda_function.py)
\* ------------------------------------------------------------------------
MaxWords == 5
MaxWindow == 3
MaxOverlap == 3

\* The loop is cut after this many iterations
MaxIterations == MaxWords + 2

\* Entry of chunk_text up to the while loop: a text of at most window_size
\* words is returned as one chunk
ChunkTextCall ==
  /\ cpc = "idle"
  /\ ipc = "idle"
  /\ \E n \in 0..MaxWords, window_size \in 1..MaxWindow,
        overlap \in 0..MaxOverlap :
       /\ ing' = [n |-> n, window_size |-> window_size, overlap |-> overlap,
                  start |-> 0, iterations |-> 0,
                  chunks |-> IF n <= window_size
                             THEN <<[lo |-> 0, hi |-> n]>> ELSE <<>>]
       /\ ipc' = IF n <= window_size THEN "chunk_return" ELSE "chunk_loop"
  /\ UNCHANGED <<chat_vars, store_vars, ningest, pe_response, ei_response,
                 fp_response>>

\* One iteration of the while loop of chunk_text
ChunkTextStep ==
  /\ ipc = "chunk_loop"
  /\ ing.iterations < MaxIterations
  /\ LET end == Min(ing.start + ing.window_size, ing.n)
         chunk_words == PySlice(ing.start, end, ing.n)
         start == SlideForward(ing.start, ing.window_size, ing.overlap)
     IN /\ ing' = [ing EXCEPT
                     !.chunks = IF chunk_words.lo < chunk_words.hi
                                THEN Append(@, chunk_words) ELSE @,
                     !.start = start,
                     !.iterations = @ + 1]
        /\ ipc' = IF start >= ing.n THEN "chunk_return" ELSE "chunk_loop"
  /\ UNCHANGED <<chat_vars, store_vars, ningest, pe_response, ei_response,
                 fp_response>>

\* "return chunks"
ChunkTextReturn ==
  /\ ipc = "chunk_return"
  /\ ing' = Nil
  /\ ipc' = "idle"
  /\ UNCHANGED <<chat_vars, store_vars, ningest, pe_response, ei_response,
                 fp_response>>

ChunkNext ==
  \/ ChunkTextCall
  \/ ChunkTextStep
  \/ ChunkTextReturn

ChunkSpec == Init /\ [][ChunkNext]_vars

\* ------------------------------------------------------------------------
\* The usage ledger alone: any sequence of log_api_call and reset_session
\* (cost_tracker.py)
\* ------------------------------------------------------------------------
MaxCalls == 3

LedgerModels == {"gpt-4o-mini", "text-embedding-3-small", "gpt-4"}
LedgerUsages ==
  {ChatUsage, EmbeddingUsage,
   [prompt_tokens |-> 250, completion_tokens |-> 50, total_tokens |-> 300]}

\* The rates the comments of PRICING document, in dollars per million
\* tokens: "$0.40 per 1M input tokens", "$1.60 per 1M output tokens",
\* "$0.02 per 1M input tokens".  One dollar per million tokens is 100 cost
\* units (1e-8 USD) per token, so the rates are in cost units per token.
DOCUMENTED_RATES ==
  [m \in {"gpt-4o-mini", "text-embedding-3-small"} |->
     IF m = "gpt-4o-mini" THEN [input |-> 40, output |-> 160]
                          ELSE [input |-> 2, output |-> 0]]

LedgerLogApiCall ==
  /\ cpc = "idle"
  /\ ipc = "idle"
  /\ Len(cost_tracker.api_calls) < MaxCalls
  /\ \E api_type \in {"classification", "embedding", "chat"},
        model \in LedgerModels, usage \in LedgerUsages :
       cost_tracker' = log_api_call(cost_tracker, api_type, model, usage)
  /\ UNCHANGED <<cpc, nreq, req, classification, processed_file_ids,
                 context_data, prompt_data, llm_response, result, response,
                 cost_monitor, audit, store_vars, ingest_vars>>

LedgerResetSession ==
  /\ cpc = "idle"
  /\ ipc = "idle"
  /\ cost_tracker' = reset_session(cost_tracker)
  /\ UNCHANGED <<cpc, nreq, req, classification, processed_file_ids,
                 context_data, prompt_data, llm_response, result, response,
                 cost_monitor, audit, store_vars, ingest_vars>>

LedgerNext ==
  \/ LedgerLogApiCall
  \/ LedgerResetSession

LedgerSpec == Init /\ [][LedgerNext]_vars

\* ------------------------------------------------------------------------
\* The usage monitor alone: the summaries of finished requests are added
\* one after another, as lambda_handler does with the summary of its
\* ledger (cost_monitor.py)
\* ------------------------------------------------------------------------
MaxSessions == 3

\* Costs of a request, in cost units of 1e-8 USD: nothing, exactly $1.00,
\* just above $1.00, and $5.00
SessionCosts == {0, 100000000, 100000001, 500000000}

\* The ledger of a finished request of the given cost with one or two calls
SessionLedger(cost, calls) ==
  [total_cost |-> cost,
   api_calls |->
     IF calls = 1
     THEN <<[api_type |-> "chat", model |-> "gpt-4o-mini",
             usage |-> ChatUsage, cost_usd |-> cost]>>
     ELSE <<[api_type |-> "classification", model |-> "gpt-4o-mini",
             usage |-> ChatUsage, cost_usd |-> 0],
            [api_type |-> "chat", model |-> "gpt-4o-mini",
             usage |-> ChatUsage, cost_usd |-> cost]>>]

MonitorAddSessionCosts ==
  /\ cpc = "idle"
  /\ ipc = "idle"
  /\ IF Today \in DOMAIN cost_monitor.daily_costs
     THEN cost_monitor.daily_costs[Today].request_count < MaxSessions
     ELSE TRUE
  /\ \E cost \in SessionCosts, calls \in 1..2 :
       /\ cost_tracker' = SessionLedger(cost, calls)
       /\ cost_monitor' =
            add_session_costs(cost_monitor, get_session_summary(cost_tracker'))
  /\ UNCHANGED <<cpc, nreq, req, classification, processed_file_ids,
                 context_data, prompt_data, llm_response, result, response,
                 audit, store_vars, ingest_vars>>

MonitorNext == MonitorAddSessionCosts

MonitorSpec == Init /\ [][MonitorNext]_vars


\* ------------------------------------------------------------------------
\* Properties
\* ------------------------------------------------------------------------
\* C1: every chunk a similarity search returns to a request of tenant
\* (org_id, building_id) comes from a point of the index whose payload has
\* that org_id and that building_id
C1_TenantIsolation ==
  /\ (audit.search.made /\ IsDict(req)) =>
       \A p \in audit.search.hits :
         /\ p.payload.org_id = req.organization_id
         /\ p.payload.building_id = req.building_id
  /\ HasKey(context_data, "chunks") =>
       \A i \in DOMAIN context_data.chunks :
         \E p \in collections[CHAT_COLLECTION_NAME] :
           /\ ChunkOfPoint(p) = context_data.chunks[i]
           /\ p.payload.org_id = req.organization_id
           /\ p.payload.building_id = req.building_id

\* A search returned chunks while the index holds points of other tenants
C1_Witness ==
  /\ HasKey(context_data, "chunks")
  /\ context_data.chunks # <<>>
  /\ audit.search.made
  /\ \E p \in collections[CHAT_COLLECTION_NAME] :
       p.payload.building_id # req.building_id

\* C2: an authorized chat request is answered with an error only if the
\* generation call failed; a failure or unexpected result of classification,
\* ingestion trigger, resolution or prompt building still ends in success
C2_ErrorOnlyIfGenerationFailed ==
  (cpc = "responded" /\ response.statusCode = 500) =>
    "generation" \in audit.failures

\* C3: when the generation call fails the orchestrator returns the generic
\* apology with status error, and the handler still logs the usage summary
\* and adds the session to the usage monitor
C3_GenerationFailure ==
  "generation" \in audit.failures =>
    /\ result.status = "error"
    /\ result.response = GENERIC_APOLOGY
    /\ cpc = "responded" =>
         /\ response.statusCode = 500
         /\ audit.summary_logged = 1
         /\ audit.monitor_added = 1
         /\ Today \in DOMAIN cost_monitor.daily_costs
         /\ cost_monitor.daily_costs[Today].request_count >= 1
         /\ cost_monitor.daily_costs[Today].total_cost >= cost_tracker.total_cost

\* The generation call failed after it was recorded and the request is answered
C3_Witness ==
  /\ cpc = "responded"
  /\ "generation" \in audit.failures
  /\ cost_tracker.total_cost > 0

\* C4: every chat request that enters orchestration ends in one terminal
\* outcome, success or error, whatever the remote services answer: a request
\* in orchestration can always take a step, every step moves it forward in
\* the order of the stages (of the ingestion chain, of the embedding
\* batches), and what generate_response returns has status success or error
C4_OneTerminalOutcome ==
  /\ [](cpc \in {"classify", "process_file", "ingest_wait", "resolve",
                 "build_prompt", "generate", "format", "handler_end"}
          => ENABLED Next)
  /\ [][LET Stage(c) ==
              CASE c = "classify" -> 1 [] c = "process_file" -> 2
                [] c = "ingest_wait" -> 3 [] c = "resolve" -> 4
                [] c = "build_prompt" -> 5 [] c = "generate" -> 6
                [] c = "format" -> 7 [] c = "handler_end" -> 8
                [] c = "responded" -> 9 [] OTHER -> 0
            IStage(i) ==
              CASE i = "fp_invoked" -> 1 [] i = "ei_invoked" -> 2
                [] i = "pe_invoked" -> 3 [] i = "pe_embedding" -> 4
                [] i = "pe_done" -> 5 [] i = "ei_shadow" -> 6
                [] i = "ei_save" -> 7 [] i = "ei_done" -> 8
                [] i = "fp_done" -> 9 [] OTHER -> 0
        IN Stage(cpc) \in 1..8 =>
             \/ Stage(cpc') > Stage(cpc)
             \/ /\ cpc = "ingest_wait" /\ cpc' = "ingest_wait"
                /\ \/ IStage(ipc') > IStage(ipc)
                   \/ /\ ipc = "pe_embedding" /\ ipc' = "pe_embedding"
                      /\ ing'.batch_start > ing.batch_start]_vars
  /\ [](cpc = "handler_end" =>
          /\ HasKey(result, "status")
          /\ result.status \in {"success", "error"}
          /\ result.status = "success" <=>
               audit.stages = <<"classify", "process_file", "resolve",
                                "build_prompt", "generate", "format">>)

\* A request ended in error before the generation stage ran
C4_Witness ==
  /\ cpc = "handler_end"
  /\ result.status = "error"
  /\ "generate" \notin Range(audit.stages)

\* C5: classify always returns a result whose context_type is one of the
\* five context types and that carries confidence, reason,
\* requires_file_processing and suggested_actions
C5_ClassifyWellFormed ==
  audit.classifier_reply # "none" =>
    /\ IsDict(classification)
    /\ {"context_type", "confidence", "reason", "requires_file_processing",
        "suggested_actions"} \subseteq DOMAIN classification
    /\ classification.context_type \in ContextTypes

\* C6: every classification result has a confidence between 0 and 1
\* (0 and 100 hundredths), on the primary path and on the fallback path
C6_ConfidenceInRange ==
  audit.classifier_reply # "none" =>
    /\ HasKey(classification, "confidence")
    /\ classification.confidence >= 0
    /\ classification.confidence <= 100

\* C7: the keyword fallback is a function of the message alone: two runs on
\* the same message give the same result whatever the history, the file ids
\* and the building id are, and a run writes nothing but its result (the
\* ledger holds at most the classification call that classify recorded
\* before it fell back)
C7_FallbackDependsOnMessageOnly ==
  [][audit'.classifier_reply \in {"failed", "not_json"} =>
       /\ (/\ audit.classifier_reply \in {"failed", "not_json"}
           /\ req'.message = req.message)
          => classification' = classification
       /\ Len(cost_tracker'.api_calls) =
            (IF audit'.classifier_reply = "not_json" THEN 1 ELSE 0)
       /\ UNCHANGED <<cost_monitor, store_vars, ingest_vars>>]_vars

\* The fallback ran on a request that carries file ids and a history
C7_Witness ==
  /\ audit.classifier_reply = "failed"
  /\ req.file_ids # <<>>
  /\ req.message_history # <<>>
  /\ classification.context_type = "building_context"

\* C8: a resolution that met a missing row, a database exception, an
\* embedding failure or a vector-store failure returns a bundle with an empty
\* context and a non-empty error string, and the orchestration goes on to
\* build a prompt
C8_ResolutionFailureIsBundle ==
  audit.resolve_cause \in {"missing_row", "db_exception", "embedding", "vector_store"} =>
    /\ cpc \in {"build_prompt", "generate", "format"} =>
         /\ IsDict(context_data)
         /\ context_data.context = <<>>
         /\ HasKey(context_data, "error")
         /\ context_data.error # ""
    /\ cpc \in {"build_prompt", "generate", "format", "handler_end", "responded"}
    /\ cpc # "build_prompt" => "build_prompt" \in Range(audit.stages)
    /\ cpc \in {"generate", "format"} => HasKey(prompt_data, "system_message")

\* The database raised during a resolution and the prompt has been built
C8_Witness ==
  /\ audit.resolve_cause = "db_exception"
  /\ cpc = "generate"

\* C9: when an embedding call fails during an ingestion, the ingestion
\* returns status error, no point of that document is in the index and no
\* shadow row of it is in the relational store
C9_EmbeddingFailureWritesNothing ==
  (HasKey(ing, "failed_step") /\ ing.failed_step = "embedding") =>
    /\ IsDict(pe_response) => pe_response.body.status = "error"
    /\ ipc \in {"ei_done", "fp_done"} => ei_response.body.status = "error"
    /\ ipc = "fp_done" => fp_response.body.status = "error"
    /\ \A c \in DOMAIN collections :
         \A p \in collections[c] : p.payload.file_id # ing.file_id
    /\ \A r \in file_chunk_vector : r.file_id # ing.file_id

\* The second embedding batch of a document failed and file_processor returned
C9_Witness ==
  /\ ipc = "fp_done"
  /\ HasKey(ing, "failed_step")
  /\ ing.failed_step = "embedding"
  /\ Len(ing.embeddings) = BATCH_SIZE

\* C10: an ingestion whose embed_and_index step returned status error left
\* no point, no shadow row and no chunk object of that document
C10_NoPartialCommit ==
  (/\ ipc \in {"ei_done", "fp_done"}
   /\ HasKey(ing, "file_id")
   /\ IsDict(ei_response)
   /\ ei_response.body.status = "error") =>
    /\ \A c \in DOMAIN collections :
         \A p \in collections[c] : p.payload.file_id # ing.file_id
    /\ \A r \in file_chunk_vector : r.file_id # ing.file_id

\* C11: with 0 <= overlap < window_size (both are word counts, window_size
\* at least 1), chunk_text terminates: the loop is left after at most
\* len(words) iterations, because every iteration moves the window start
\* forward and the loop runs only while start < len(words).  The chunks it
\* returns contain every word of the cleaned text, each chunk has at most
\* window_size words, and they are the chunks the ingestion stores.
C11_ChunkingCoversAndTerminates ==
  /\ [](ipc \in {"chunk_loop", "chunk_return"}
          /\ ing.overlap < ing.window_size
        => /\ \A i \in DOMAIN ing.chunks :
                /\ ing.chunks[i].hi - ing.chunks[i].lo <= ing.window_size
                /\ ing.chunks[i].lo <= ing.chunks[i].hi
           /\ ipc = "chunk_loop"
                => /\ ing.start < ing.n
                   /\ ing.iterations <= ing.start
                   /\ ing.iterations < MaxIterations
                   /\ ENABLED ChunkTextStep
           /\ ipc = "chunk_return"
                => /\ \A w \in 0..(ing.n - 1) :
                        \E i \in DOMAIN ing.chunks :
                          ing.chunks[i].lo <= w /\ w < ing.chunks[i].hi
                   /\ ing.chunks
                        = chunk_text(ing.n, ing.window_size, ing.overlap))
  /\ [][ipc = "chunk_loop" /\ ing.overlap < ing.window_size
          => ing'.start > ing.start]_vars

\* a text cut into three or more overlapping chunks has been chunked
C11_Witness ==
  /\ ipc = "chunk_return"
  /\ ing.overlap > 0
  /\ ing.overlap < ing.window_size
  /\ Len(ing.chunks) >= 3
  /\ ing.chunks[Len(ing.chunks)].hi - ing.chunks[Len(ing.chunks)].lo
       < ing.window_size

\* C12: with overlap >= window_size chunk_text still terminates: every
\* iteration of the loop moves the window start forward by at least one
\* word, and at most len(words) chunks are emitted.
C12_TerminatesWhenOverlapNotSmaller ==
  /\ [](ipc \in {"chunk_loop", "chunk_return"}
          /\ ing.overlap >= ing.window_size
        => Len(ing.chunks) <= IF ing.n = 0 THEN 1 ELSE ing.n)
  /\ [][ipc = "chunk_loop" /\ ing.overlap >= ing.window_size
          => ing'.start >= ing.start + 1]_vars

\* C13: the cost the ledger records for a call to a model of the pricing
\* table is prompt_tokens/1e6 times the model's documented input rate in
\* dollars per million tokens plus completion_tokens/1e6 times its output
\* rate; 1000 prompt and 200 completion tokens of the completion model
\* cost $0.00072, which is 72000 cost units of 1e-8 USD.
C13_CostIsDocumentedRate ==
  \A i \in DOMAIN cost_tracker.api_calls :
    LET call == cost_tracker.api_calls[i]
    IN call.model \in DOMAIN DOCUMENTED_RATES
         => /\ call.cost_usd
                 = Get(call.usage, "prompt_tokens", 0)
                     * DOCUMENTED_RATES[call.model].input
                   + Get(call.usage, "completion_tokens", 0)
                       * DOCUMENTED_RATES[call.model].output
            /\ call.model = "gpt-4o-mini" /\ call.usage = ChatUsage
                 => call.cost_usd = 72000

\* C14: every embedding call is recorded in the usage ledger: once a chat
\* request has called the embedding service, whether the call succeeded or
\* raised, the ledger holds an embedding record, and every batch call of an
\* ingestion adds one embedding record.
C14_EveryEmbeddingCallRecorded ==
  /\ [](audit.resolve_cause = "embedding" \/ audit.search.made
        => Len(CallsOfType(cost_tracker.api_calls, "embedding")) = 1)
  /\ [][ipc = "pe_embedding" /\ ing' # ing
          => Len(CallsOfType(cost_tracker'.api_calls, "embedding"))
               = Len(CallsOfType(cost_tracker.api_calls, "embedding")) + 1]_vars

C16_TriggerDoesNotBlock ==
  cpc = "ingest_wait" => ENABLED ProcessFileReturn

\* C17: a failed ingestion trigger does not fail the request.  When file
\* processing is required and the orchestrator leaves the stage without an
\* invocation (the URL is not a well-formed s3:// URL, or the invocation
\* raises), or the invocation returns with an error, a non-success status
\* or no file id, the next stage is context resolution and its file list
\* is exactly the file list of the request; the stage never ends the
\* request.
C17_TriggerFailureKeepsFileList ==
  /\ [](cpc = "resolve" /\ "ingestion" \in audit.failures
        => processed_file_ids = req.file_ids /\ result = Nil)
  /\ [][LET required == /\ Get(classification, "requires_file_processing", FALSE)
                        /\ Truthy(req.file_url)
            not_invoked == cpc = "process_file" /\ required /\ cpc' = "resolve"
            returned_failure ==
              /\ cpc = "ingest_wait"
              /\ ipc = "fp_done"
              /\ \/ ~HasKey(fp_response, "body")
                 \/ Get(fp_response.body, "status", "None") # "success"
                 \/ "file_id" \notin DOMAIN fp_response.body
        IN /\ cpc = "process_file" => cpc' \in {"resolve", "ingest_wait"}
           /\ not_invoked \/ returned_failure
                => /\ cpc' = "resolve"
                   /\ processed_file_ids' = req.file_ids
                   /\ "ingestion" \in audit'.failures
                   /\ UNCHANGED <<req, result, response, store_vars>>]_vars

\* the processor was invoked for a request that named a file, it reported a
\* failure, and the request is at context resolution with its file list
C17_Witness ==
  /\ cpc = "resolve"
  /\ "ingestion" \in audit.failures
  /\ ningest = 1
  /\ req.file_ids = <<1>>
  /\ processed_file_ids = <<1>>

\* C18: a request that access validation denies is answered 403 before any
\* orchestration stage runs.  A request is in a stage only if the buildings
\* and organizations tables grant its user access; the step that receives a
\* request they do not grant ends in the 403 response, with an empty
\* ledger and with the monitor, the vector index, the file tables and the
\* ingestion untouched; and in a request answered 403 no stage has run, no
\* classification, embedding, index or generation call was made and no
\* summary was logged or added to the monitor.
C18_DeniedBeforeOrchestration ==
  /\ [](cpc \in {"classify", "process_file", "ingest_wait", "resolve",
                 "build_prompt", "generate", "format"}
        => validate_building_access(req.building_id, req.organization_id,
                                    req.user_email, "rows"))
  /\ [](cpc = "responded" /\ response.statusCode = 403
        => /\ audit = NewAudit
           /\ cost_tracker = NewTracker
           /\ result = Nil
           /\ ipc = "idle")
  /\ [][cpc = "idle"
          /\ ~validate_building_access(req'.building_id, req'.organization_id,
                                       req'.user_email, "rows")
          => /\ cpc' = "responded"
             /\ response'.statusCode = 403
             /\ cost_tracker' = NewTracker
             /\ UNCHANGED <<cost_monitor, store_vars, ingest_vars>>]_vars

\* a manager of another organization's building was answered 403
C18_Witness ==
  /\ cpc = "responded"
  /\ response.statusCode = 403
  /\ req.user_email = "mgr@2"
  /\ req.organization_id = 1
  /\ req.building_id = 1

\* C19: file-context resolution with an empty list of file ids returns the
\* bundle with no context and the error "No file IDs provided", records no
\* embedding call and queries no index; the prompt stage still yields a
\* prompt; and the request ends in the success response exactly when
\* generation succeeds, with that error in the metadata of the response.
C19_EmptyFileIdsResolution ==
  /\ [][/\ cpc = "resolve"
         /\ classification.context_type = "file_context"
         /\ processed_file_ids = <<>>
         => /\ context_data' = [context |-> <<>>, error |-> "No file IDs provided"]
            /\ cost_tracker' = cost_tracker
            /\ audit'.search = NoSearch
            /\ audit'.resolve_cause = "no_file_ids"
            /\ cpc' = "build_prompt"]_vars
  /\ [](audit.resolve_cause = "no_file_ids" /\ cpc \in {"generate", "format"}
        => /\ HasKey(prompt_data, "system_message")
           /\ prompt_data.context_type \in {"file_context", "fallback"}
           /\ CallsOfType(cost_tracker.api_calls, "embedding") = <<>>)
  /\ [](audit.resolve_cause = "no_file_ids" /\ cpc = "handler_end"
        => /\ result.status = "success" <=> "generation" \notin audit.failures
           /\ result.status = "success"
                => /\ result.metadata.error = "No file IDs provided"
                   /\ result.metadata.context_type = "file_context"
                   /\ ~result.metadata.context_used
                   /\ result.metadata.chunks_used = <<>>)

\* a file question without any file id ended in the success response
C19_Witness ==
  /\ cpc = "handler_end"
  /\ audit.resolve_cause = "no_file_ids"
  /\ result.status = "success"
  /\ result.metadata.error = "No file IDs provided"

\* C20: when the summary of a finished request is passed to the monitor,
\* the total of the day and the total of the month grow by the cost of the
\* request, their request counts by one and their call counts by the calls
\* of the request; a high-session-cost alert is appended exactly when the
\* cost of the request is above $1.00 (100000000 cost units), and after it
\* a high-daily-cost alert exactly when the new total of the day is above
\* $10.00 (1000000000 cost units); no other alert is added and none removed.
C20_MonitorAggregatesAndAlerts ==
  [][cost_monitor' # cost_monitor
       => LET cost == cost_tracker'.total_cost
              calls == Len(cost_tracker'.api_calls)
              old_day == IF Today \in DOMAIN cost_monitor.daily_costs
                         THEN cost_monitor.daily_costs[Today] ELSE NewBucket
              old_month == IF ThisMonth \in DOMAIN cost_monitor.monthly_costs
                           THEN cost_monitor.monthly_costs[ThisMonth]
                           ELSE NewBucket
              day == cost_monitor'.daily_costs[Today]
              month == cost_monitor'.monthly_costs[ThisMonth]
              session_alert ==
                IF cost > 100000000
                THEN <<[type |-> "high_session_cost", cost |-> cost]>>
                ELSE <<>>
              daily_alert ==
                IF old_day.total_cost + cost > 1000000000
                THEN <<[type |-> "high_daily_cost",
                        cost |-> old_day.total_cost + cost]>>
                ELSE <<>>
          IN /\ DOMAIN cost_monitor'.daily_costs = {Today}
             /\ DOMAIN cost_monitor'.monthly_costs = {ThisMonth}
             /\ day.total_cost = old_day.total_cost + cost
             /\ day.request_count = old_day.request_count + 1
             /\ day.api_calls = old_day.api_calls + calls
             /\ month.total_cost = old_month.total_cost + cost
             /\ month.request_count = old_month.request_count + 1
             /\ month.api_calls = old_month.api_calls + calls
             /\ cost_monitor'.cost_alerts
                  = cost_monitor.cost_alerts \o session_alert \o daily_alert]_vars

\* two requests of $5.00 raised a session alert each and brought the day to
\* exactly $10.00 without a daily alert; a third of exactly $1.00 raised no
\* session alert and the daily alert
C20_Witness ==
  /\ cost_tracker.total_cost = 100000000
  /\ Today \in DOMAIN cost_monitor.daily_costs
  /\ cost_monitor.daily_costs[Today].total_cost = 1100000000
  /\ cost_monitor.daily_costs[Today].request_count = 3
  /\ Len(cost_monitor.cost_alerts) = 3
  /\ cost_monitor.cost_alerts[3].type = "high_daily_cost"

\* C21: within one request the stages run in the order classify, ingestion
\* trigger, resolve, build prompt, generate, format, each at most once: the
\* stages run so far are always a prefix of that list.  The generation
\* call is made only with a built prompt, and the context bundle and the
\* prompt are those of the context_type classification returned (the
\* general ones for a type without a resolver, the fallback prompt when
\* assembling raised).
C21_StageOrder ==
  /\ [](LET StageOrder == <<"classify", "process_file", "resolve",
                            "build_prompt", "generate", "format">>
        IN /\ Len(audit.stages) <= Len(StageOrder)
           /\ audit.stages = SubSeq(StageOrder, 1, Len(audit.stages)))
  /\ [](cpc \in {"generate", "format"}
        => /\ HasKey(prompt_data, "system_message")
           /\ prompt_data.context_type
                \in {IF classification.context_type \in ContextTypes
                     THEN classification.context_type ELSE "general",
                     "fallback"}
           /\ CallsOfType(cost_tracker.api_calls, "chat") # <<>>
                <=> cpc = "format")
  /\ [](cpc \in {"build_prompt", "generate", "format"}
        => /\ IsDict(context_data)
           /\ HasKey(context_data, "context_type")
                => context_data.context_type
                     = IF classification.context_type \in ContextTypes
                       THEN classification.context_type ELSE "general"
           /\ audit.search.made
                => classification.context_type
                     \in {"file_context", "vector_context"})
  /\ [][/\ cpc' \in {"classify", "process_file", "ingest_wait", "resolve",
                      "build_prompt", "generate", "format"}
        /\ cpc' # cpc
        => <<cpc, cpc'>> \in {<<"idle", "classify">>,
                              <<"classify", "process_file">>,
                              <<"process_file", "ingest_wait">>,
                              <<"process_file", "resolve">>,
                              <<"ingest_wait", "resolve">>,
                              <<"resolve", "build_prompt">>,
                              <<"build_prompt", "generate">>,
                              <<"generate", "format">>}]_vars

\* a request classified as building context reached the format stage with
\* the building prompt
C21_Witness ==
  /\ cpc = "format"
  /\ classification.context_type = "building_context"
  /\ prompt_data.context_type = "building_context"
  /\ audit.stages = <<"classify", "process_file", "resolve", "build_prompt",
                      "generate">>

\* C22: the embedding calls of an ingestion are made one after another,
\* each for at most 32 texts that continue where the previous call ended;
\* the embeddings collected so far are those of the first chunks in chunk
\* order, a successful run returns one vector per chunk, and the i-th
\* point pairs the text of chunk i with the embedding of chunk i and
\* carries chunk_index i (counted from 0).
C22_BatchedEmbeddingsInChunkOrder ==
  /\ [](ipc = "pe_embedding"
        => /\ ing.batch_start % BATCH_SIZE = 0
           /\ ing.batch_start < Len(ing.chunked_docs)
           /\ Len(ing.embeddings) = ing.batch_start
           /\ \A i \in DOMAIN ing.embeddings :
                ing.embeddings[i] = EmbeddingOf(ing.chunked_docs[i].text))
  /\ [](ipc = "pe_done" /\ pe_response.body.status = "success"
        => /\ pe_response.body.chunks = ing.chunked_docs
           /\ Len(pe_response.body.embeddings) = Len(ing.chunked_docs)
           /\ \A i \in DOMAIN ing.chunked_docs :
                pe_response.body.embeddings[i]
                  = EmbeddingOf(ing.chunked_docs[i].text))
  /\ [](ipc = "ei_shadow"
        => /\ Len(ing.vectors_to_upsert) = Len(ing.chunked_docs)
           /\ \A i \in DOMAIN ing.vectors_to_upsert :
                /\ ing.vectors_to_upsert[i].payload.text = ing.chunked_docs[i].text
                /\ ing.vectors_to_upsert[i].vector
                     = EmbeddingOf(ing.chunked_docs[i].text)
                /\ ing.vectors_to_upsert[i].payload.chunk_index = i - 1)
  /\ [][ipc = "pe_embedding" /\ ing'.embeddings # ing.embeddings
          => /\ Len(ing'.embeddings) - Len(ing.embeddings) \in 1..32
             /\ SubSeq(ing'.embeddings, 1, Len(ing.embeddings)) = ing.embeddings
             /\ ing'.chunked_docs = ing.chunked_docs]_vars

\* a document of 33 chunks was embedded in two calls and its points built
C22_Witness ==
  /\ ipc = "ei_shadow"
  /\ Len(ing.vectors_to_upsert) = 33
  /\ ing.batch_start = 64

\* C23: an ingestion never overwrites or removes a point of an earlier
\* ingestion: every step leaves the points already in a collection as they
\* are, the points it adds have ids no stored point has, and so ids are
\* unique; every file id with points in the ingestion collection has one
\* point per chunk of its document, so after a second ingestion of a
\* document both chunk sets are complete.
C23_ReingestionAddsParallelSet ==
  /\ [][\A c \in DOMAIN collections :
          /\ c \in DOMAIN collections'
          /\ collections[c] \subseteq collections'[c]
          /\ \A n \in collections'[c] \ collections[c] :
               \A o \in collections[c] : o.id # n.id]_vars
  /\ [](\A c \in DOMAIN collections :
          \A p1, p2 \in collections[c] : p1.id = p2.id => p1 = p2)
  /\ [](INGEST_COLLECTION_NAME \in DOMAIN collections
        => \A file_id \in {p.payload.file_id :
                              p \in collections[INGEST_COLLECTION_NAME]} :
             LET of_file == {q \in collections[INGEST_COLLECTION_NAME] :
                               q.payload.file_id = file_id}
                 document == S3Documents[file_tracking[file_id].file_path]
                 chunks == create_chunks(ExtractPages(document, 1),
                                         WINDOW_SIZE, OVERLAP)
                 stored == {<<q.payload.chunk_index, q.payload.text>> :
                              q \in of_file}
             IN /\ stored = {<<i - 1, chunks[i].text>> : i \in DOMAIN chunks}
                /\ Cardinality(of_file) = Cardinality(stored))

\* the same document of the same building was ingested twice and the
\* collection holds a point of each ingestion for the same chunk
C23_Witness ==
  /\ ipc = "idle"
  /\ INGEST_COLLECTION_NAME \in DOMAIN collections
  /\ \E p1, p2 \in collections[INGEST_COLLECTION_NAME] :
       /\ p1.payload.file_id # p2.payload.file_id
       /\ p1.payload.source = p2.payload.source
       /\ p1.payload.building_id = p2.payload.building_id
       /\ p1.payload.org_id = p2.payload.org_id
       /\ p1.payload.chunk_index = 2
       /\ p2.payload.chunk_index = 2
       /\ p1.payload.text = p2.payload.text

\* C24: when the classifier falls back to keywords, the type it returns is
\* that of the first of the keyword sets file, building, organization,
\* vector of which the lower-cased message contains a keyword, and general
\* when it contains none; the confidence is 0.7 (70 hundredths) for a match
\* and 0.6 for general, and the reason is one of the fallback reasons.
C24_FallbackPriorityOrder ==
  audit.classifier_reply \in {"failed", "not_json"} =>
    LET lower == {IF w = "FILE" THEN "file"
                  ELSE IF w = "Building" THEN "building" ELSE w :
                    w \in req.message}
        sets == <<{"file", "document", "upload", "this", "summarize"},
                  {"building", "energy", "bills", "measures"},
                  {"organization", "company", "all buildings", "portfolio"},
                  {"previous", "historical", "past", "reports", "find",
                   "search", "analysis"}>>
        types == <<"file_context", "building_context",
                   "organization_context", "vector_context">>
        matching == {i \in 1..4 : lower \cap sets[i] # {}}
        first == CHOOSE i \in matching : \A j \in matching : i <= j
    IN /\ classification.context_type
            = IF matching = {} THEN "general" ELSE types[first]
       /\ classification.confidence = IF matching = {} THEN 60 ELSE 70
       /\ classification.reason
            \in {"Fallback: detected file-related keywords",
                 "Fallback: detected building-related keywords",
                 "Fallback: detected organization-related keywords",
                 "Fallback: detected vector search keywords",
                 "Fallback: no specific context detected"}

\* the fallback classified a message with a file keyword and a building
\* keyword as file context
C24_Witness ==
  /\ audit.classifier_reply = "failed"
  /\ req.message = {"FILE", "Building"}
  /\ classification.context_type = "file_context"
  /\ classification.confidence = 70

\* C25: an error raised by a vector-index query is caught and counts as zero
\* results: the search returns no chunk, the resolution returns a bundle
\* with an empty context, no chunks and the "no relevant content" error,
\* the orchestration goes on to the prompt stage, and the request ends in
\* the success response unless generation fails.
C25_QueryErrorIsZeroResults ==
  audit.search.made /\ audit.search.failed =>
    /\ audit.search.hits = {}
    /\ cpc \in {"build_prompt", "generate", "format", "handler_end", "responded"}
    /\ cpc \in {"build_prompt", "generate", "format"}
         => /\ IsDict(context_data)
            /\ context_data.context = <<>>
            /\ "chunks" \notin DOMAIN context_data
            /\ HasKey(context_data, "error")
            /\ context_data.error
                 \in {"No relevant content found",
                      "No relevant content found in vector store"}
    /\ cpc = "handler_end"
         => /\ result.status = "success" <=> "generation" \notin audit.failures
            /\ result.status = "success" => ~result.metadata.context_used

\* a request whose index query raised ended in the success response
C25_Witness ==
  /\ cpc = "handler_end"
  /\ audit.search.made
  /\ audit.search.failed
  /\ result.status = "success"
  /\ result.metadata.error = "No relevant content found in vector store"

\* C26: when every step of an ingestion succeeded (embed_and_index answered
\* 200 with status success), the file processor answers its caller with
\* status success and the stats of the ingestion: chunk count, vector
\* dimension, byte size and chunking configuration.
C26_SuccessReportsStats ==
  /\ ipc = "fp_done"
  /\ HasKey(ei_response, "body")
  /\ ei_response.statusCode = 200
  /\ ei_response.body.status = "success"
  => /\ fp_response.statusCode = 200
     /\ fp_response.body.status = "success"
     /\ \E stats \in {fp_response.body.rag_result.body.stats} :
          /\ stats.num_chunks = Len(ing.chunked_docs)
          /\ stats.embedding_dim = EMBEDDING_DIM
          /\ stats.chunking_config
               = [window_size |-> WINDOW_SIZE, overlap |-> OVERLAP]

\* C27: when the ingestion a chat request triggered has completed with
\* success (embed_and_index answered 200 with status success), the file
\* list the request goes on to resolve with is the id of the new file
\* followed by the file ids of the request.
C27_NewFileIdFirst ==
  [][/\ cpc = "ingest_wait"
     /\ ipc = "fp_done"
     /\ HasKey(ei_response, "body")
     /\ ei_response.statusCode = 200
     /\ ei_response.body.status = "success"
     => /\ cpc' = "resolve"
        /\ processed_file_ids' = <<ing.file_id>> \o req.file_ids]_vars

\* C28: prompt building never fails a request: the prompt stage is always
\* followed by the generation stage with a prompt; a context type without a
\* template of its own is rendered with the general template; and when
\* assembling raised, in a template or while the transcript of the recent
\* turns was appended, the prompt is the fallback prompt and carries an
\* error marker.
C28_PromptNeverFails ==
  /\ [][cpc = "build_prompt" => cpc' = "generate" /\ result' = result]_vars
  /\ [](cpc = "generate"
        => /\ HasKey(prompt_data, "system_message")
           /\ classification.context_type \notin ContextTypes
                => prompt_data.context_type \in {"general", "fallback"}
           /\ "prompt" \in audit.failures
                => /\ prompt_data.context_type = "fallback"
                   /\ "error" \in DOMAIN prompt_data)

\* C29: the chunks of a document keep the number of the page they were cut
\* from and are numbered over the whole document: no two chunks of the
\* document have the same chunk_index, and every chunk carries the number
\* of chunks of the document as total_chunks.
C29_GlobalChunkIndex ==
  HasKey(ing, "chunked_docs") =>
    /\ \A i \in DOMAIN ing.chunked_docs :
         /\ ing.chunked_docs[i].page \in DOMAIN S3Documents[ing.path]
         /\ ing.chunked_docs[i].text[1] = ing.chunked_docs[i].page
         /\ ing.chunked_docs[i].total_chunks = Len(ing.chunked_docs)
    /\ \A i, j \in DOMAIN ing.chunked_docs :
         i # j => ing.chunked_docs[i].chunk_index # ing.chunked_docs[j].chunk_index

\* C30: after any sequence of log_api_call and reset_session on the ledger,
\* total_cost is the sum of cost_usd over the recorded calls, the summary's
\* total_api_calls is the number of recorded calls and the per-type counts
\* of the summary add up to it; a step that does not record a call is a
\* reset_session and leaves no records and a total cost of zero.
C30_LedgerTotalsAgree ==
  /\ [](LET summary == get_session_summary(cost_tracker)
             Count(t) == IF t \in DOMAIN summary.calls_by_type
                         THEN summary.calls_by_type[t].count ELSE 0
         IN /\ cost_tracker.total_cost = SumCost(cost_tracker.api_calls)
            /\ summary.total_cost_usd = SumCost(cost_tracker.api_calls)
            /\ summary.total_api_calls = Len(cost_tracker.api_calls)
            /\ DOMAIN summary.calls_by_type
                 \subseteq {"classification", "embedding", "chat"}
            /\ Count("classification") + Count("embedding") + Count("chat")
                 = summary.total_api_calls)
  /\ [][Len(cost_tracker'.api_calls) <= Len(cost_tracker.api_calls)
         => cost_tracker'.api_calls = <<>> /\ cost_tracker'.total_cost = 0]_vars

\* A ledger with three recorded calls of at least two types, one of them
\* free, and a total cost above zero
C30_Witness ==
  /\ cpc = "idle"
  /\ ipc = "idle"
  /\ Len(cost_tracker.api_calls) = 3
  /\ cost_tracker.api_calls[1].api_type = "classification"
  /\ cost_tracker.api_calls[2].api_type = "embedding"
  /\ cost_tracker.api_calls[2].cost_usd = 0
  /\ cost_tracker.api_calls[3].cost_usd > 0
  /\ get_session_summary(cost_tracker).calls_by_type["classification"].count = 1
  /\ cost_tracker.total_cost > 0

====
